---- MODULE Spec2Model ----
(***************************************************************************)
(* A model of the simple-basic interpreter: Parser.statement and the       *)
(* statement parsers it calls (parser.ts), and the Interpreter class       *)
(* (interpreter.ts): organizeStatements, collectDataStatements, the run    *)
(* loop of interpret, the statement executors and the expression           *)
(* evaluator.                                                              *)
(* The Lexer class (lexer.ts) and the line editor of the interactive mode *)
(* (main.ts) are modelled as two further objects with their own            *)
(* specifications, LexerSpec and InteractiveSpec.                          *)
(*                                                                         *)
(* Representation.                                                         *)
(*  - A JS string is a sequence of one-character strings; the fixed        *)
(*    message texts of the errors are kept as single pieces.               *)
(*  - A JS number is an integer count of 1/Scale units (fixed point), so   *)
(*    that halves exist and Math.floor is not the identity.  A number is   *)
(*    a double of MantissaBits bits of mantissa (53 in JS): the result of  *)
(*    an arithmetic operation is rounded to the nearest such number, ties  *)
(*    to even (Double).                                                    *)
(*  - JS undefined is Undefined for a line number, the empty string for a  *)
(*    name or a separator, <<>> for an index list (the parser never builds *)
(*    an empty one) and NoNode for a statement or an expression.           *)
(*  - A Map is a function whose DOMAIN is the key set; the insertion       *)
(*    ordered Map forLoops is a sequence of loop contexts.                 *)
(*  - programCounter is 0-based as in the code; orderedStatements[i + 1]   *)
(*    is the code's orderedStatements[i].                                  *)
(***************************************************************************)
EXTENDS Integers, Sequences, FiniteSets, TLC

VARIABLES
    source,             \* the program text handed to the pipeline, as written lines
    orderedStatements,  \* Interpreter.orderedStatements
    variables,          \* context.variables
    arrays,             \* context.arrays
    dataValues,         \* context.dataValues
    dataPointer,        \* context.dataPointer
    programCounter,     \* context.programCounter
    forLoops,           \* context.forLoops
    output,             \* Interpreter.output
    running,            \* Interpreter.running
    phase,              \* position of the control in interpret
    error,              \* the exception interpret caught in this run, or NoNode
    trace,              \* history: the table indices dispatched in this run, in order
    runs,               \* history: number of interpret calls made on this interpreter
    history,            \* history: source, output and error of each finished call
    opened,             \* history: loop variables opened in this run and not closed since
    openOrder,          \* history: the open loops of the context, oldest FOR first
    suite,              \* which family of programs this interpreter is given
    input,              \* Lexer.input
    position,           \* Lexer.position
    line,               \* Lexer.line
    column,             \* Lexer.column
    tokens,             \* the local tokens of Lexer.tokenize
    lexing,             \* position of the control in tokenize
    syntaxError,        \* the SyntaxError tokenize threw, or NoNode
    program,            \* the local program of runInteractive: the stored lines
    inProgramMode,      \* the local inProgramMode of runInteractive
    console,            \* what the last command wrote with console.log
    submitted,          \* the sources the last command handed to runSource (none or one)
    readLine,           \* the line readLine returned last (the local input of the loop)
    entered,            \* history: number of lines read so far
    session             \* position of the control in runInteractive

interpreterVars ==
    <<source, orderedStatements, variables, arrays, dataValues, dataPointer,
      programCounter, forLoops, output, running, phase, error, trace, runs,
      history, opened, openOrder, suite>>

lexerVars == <<input, position, line, column, tokens, lexing, syntaxError>>

interactiveVars ==
    <<program, inProgramMode, console, submitted, readLine, entered, session>>

vars == <<interpreterVars, lexerVars, interactiveVars>>

-----------------------------------------------------------------------------
(* Bounds of the model *)

MaxRuns == 2        \* interpret calls made on one Interpreter object
MaxDispatch == 14   \* statements dispatched in one run before the model stops following it
MaxInput == 4       \* characters of a text given to the Lexer
MaxEntries == 4     \* lines read in one interactive session
MantissaBits == 5   \* bits of mantissa a number keeps (an IEEE 754 double keeps 53)

-----------------------------------------------------------------------------
(* Numbers and strings *)

Scale == 2

Undefined == -1

NoNode == [type |-> "undefined"]

Num(n) == n * Scale

Half == Scale \div 2

NumberValue(x) == [type |-> "number", value |-> x]

StringValue(s) == [type |-> "string", value |-> s]

Digits == <<"0", "1", "2", "3", "4", "5", "6", "7", "8", "9">>

RECURSIVE NatToString(_)
NatToString(n) ==
    IF n < 10 THEN <<Digits[n + 1]>>
    ELSE NatToString(n \div 10) \o <<Digits[(n % 10) + 1]>>

\* Number.prototype.toString for a value of x/Scale
NumberToString(x) ==
    LET m == IF x < 0 THEN -x ELSE x
        body == NatToString(m \div Scale)
                  \o (IF m % Scale = 0 THEN <<>> ELSE <<".", "5">>)
    IN IF x < 0 THEN <<"-">> \o body ELSE body

WhiteSpace == {" ", "\t", "\n", "\r"}

IsDigit(c) == \E d \in 1..10 : Digits[d] = c

DigitValue(c) == (CHOOSE d \in 1..10 : Digits[d] = c) - 1

RECURSIVE SkipSpace(_)
SkipSpace(s) ==
    IF s # <<>> /\ Head(s) \in WhiteSpace THEN SkipSpace(Tail(s)) ELSE s

RECURSIVE DigitRun(_)
DigitRun(s) ==
    IF s # <<>> /\ IsDigit(Head(s)) THEN 1 + DigitRun(Tail(s)) ELSE 0

RECURSIVE DigitsValue(_, _)
DigitsValue(s, acc) ==
    IF s = <<>> THEN acc ELSE DigitsValue(Tail(s), acc * 10 + DigitValue(Head(s)))

NaN == [nan |-> TRUE, value |-> 0]

\* parseFloat: leading white space, a sign, digits, and a fraction of .5
\* (the only fraction the units of the model hold); NaN without a digit
HasHalf(rest) == Len(rest) >= 2 /\ rest[1] = "." /\ rest[2] = "5"

Magnitude(u, n, half) ==
    IF n = 0 /\ ~half THEN NaN
    ELSE [nan |-> FALSE,
          value |-> DigitsValue(SubSeq(u, 1, n), 0) * Scale + (IF half THEN Half ELSE 0)]

Unsigned(u, n) == Magnitude(u, n, HasHalf(SubSeq(u, n + 1, Len(u))))

WithSign(t, num) ==
    IF t # <<>> /\ Head(t) = "-" THEN [nan |-> num.nan, value |-> -num.value] ELSE num

Unsign(t) == IF t # <<>> /\ Head(t) \in {"-", "+"} THEN Tail(t) ELSE t

ParseUnsigned(u) == Unsigned(u, DigitRun(u))

ParseSigned(t) == WithSign(t, ParseUnsigned(Unsign(t)))

parseFloat(s) == ParseSigned(SkipSpace(s))

\* isNaN(num) ? 0 : num
OrZero(num) == IF num.nan THEN 0 ELSE num.value

toNumber(value) ==
    IF value.type = "number" THEN value.value
    ELSE IF value.type = "string" THEN OrZero(parseFloat(value.value))
         ELSE 0

valueToString(value) ==
    IF value.type = "string" THEN value.value
    ELSE IF value.type = "number" THEN NumberToString(value.value)
         ELSE <<>>

\* a truth test under which every string counts as true
isTruthyAnyString(value) ==
    IF value.type = "number" THEN value.value # 0 ELSE value.type = "string"

isTruthy(value) ==
    IF value.type = "number" THEN value.value # 0
    ELSE IF value.type = "string" THEN value.value # <<>>
         ELSE FALSE

\* the collation rank of the characters the programs of the model use
Alphabet == <<" ", "-", ".", "0", "1", "2", "3", "4", "5", "6", "7", "8", "9",
              "A", "B", "C", "H", "I", "X">>

CharRank(c) == CHOOSE i \in 1..Len(Alphabet) : Alphabet[i] = c

RECURSIVE localeCompare(_, _)
localeCompare(l, r) ==
    IF l = <<>> THEN (IF r = <<>> THEN 0 ELSE -1)
    ELSE IF r = <<>> THEN 1
    ELSE IF CharRank(Head(l)) < CharRank(Head(r)) THEN -1
    ELSE IF CharRank(Head(l)) > CharRank(Head(r)) THEN 1
    ELSE localeCompare(Tail(l), Tail(r))

CompareNumbers(leftNum, rightNum) ==
    IF leftNum < rightNum THEN -1
    ELSE IF leftNum > rightNum THEN 1
    ELSE 0

compareValues(left, right) ==
    IF left.type = "string" /\ right.type = "string"
    THEN localeCompare(left.value, right.value)
    ELSE CompareNumbers(toNumber(left), toNumber(right))

MathFloor(x) == (x \div Scale) * Scale

\* the integer a floored number stands for, as a JS array index or length
ToInt(x) == x \div Scale

RECURSIVE TwoTo(_)
TwoTo(n) == IF n = 0 THEN 1 ELSE 2 * TwoTo(n - 1)

\* a number is a double: the integers up to Exact are all numbers, beyond
\* it only every second one, then every fourth, and so on
Exact == TwoTo(MantissaBits)

\* the distance, in units of 1/Scale, between two neighbouring numbers at
\* n >= 0 units
RECURSIVE Spacing(_)
Spacing(n) == IF n <= Exact THEN 1 ELSE 2 * Spacing((n + 1) \div 2)

\* n >= 0 rounded to the nearest multiple of s, a tie to the even multiple
RoundTo(n, s) ==
    IF 2 * (n % s) < s THEN (n \div s) * s
    ELSE IF 2 * (n % s) > s THEN ((n \div s) + 1) * s
    ELSE ((n \div s) + ((n \div s) % 2)) * s

\* the number an arithmetic operation gives for the exact result x
Double(x) ==
    IF x < 0 THEN -RoundTo(-x, Spacing(-x)) ELSE RoundTo(x, Spacing(x))

-----------------------------------------------------------------------------
(* Expression nodes (types.ts) *)

NumberLiteral(v) == [type |-> "NumberLiteral", value |-> v]

StringLiteral(s) == [type |-> "StringLiteral", value |-> s]

Variable(name, indices) == [type |-> "Variable", name |-> name, indices |-> indices]

BinaryExpression(l, op, r) ==
    [type |-> "BinaryExpression", left |-> l, operator |-> op, right |-> r]

UnaryExpression(op, e) == [type |-> "UnaryExpression", operator |-> op, operand |-> e]

-----------------------------------------------------------------------------
(* Written statements: what the token stream of one statement says.  num   *)
(* is the leading line number (Undefined when the statement has none).     *)

At(n, w) == [k \in DOMAIN w |-> IF k = "num" THEN n ELSE w[k]]

WPrint(items, seps) == [kw |-> "PRINT", num |-> Undefined, items |-> items, seps |-> seps]

WLet(target, expr) == [kw |-> "LET", num |-> Undefined, target |-> target, expr |-> expr]

WGoto(target) == [kw |-> "GOTO", num |-> Undefined, target |-> target]

WIf(cond, thenW, elseW) ==
    [kw |-> "IF", num |-> Undefined, cond |-> cond, thenW |-> thenW, elseW |-> elseW]

WFor(v, start, end, step) ==
    [kw |-> "FOR", num |-> Undefined, variable |-> v, start |-> start, end |-> end,
     step |-> step]

WNext(v) == [kw |-> "NEXT", num |-> Undefined, variable |-> v]

WData(values) == [kw |-> "DATA", num |-> Undefined, values |-> values]

WRead(targets) == [kw |-> "READ", num |-> Undefined, targets |-> targets]

WRestore(arg) == [kw |-> "RESTORE", num |-> Undefined, arg |-> arg]

WDim(decls) == [kw |-> "DIM", num |-> Undefined, decls |-> decls]

WEnd == [kw |-> "END", num |-> Undefined]

WRem == [kw |-> "REM", num |-> Undefined]

-----------------------------------------------------------------------------
(* Parser (parser.ts) *)

\* a PRINT parser that forgets the trailing separator
printStatementNoTrailing(w) ==
    [type |-> "PrintStatement", expressions |-> w.items, separator |-> <<>>]

\* the separator field is set only by a separator that no expression follows
printStatement(w) ==
    [type |-> "PrintStatement",
     expressions |-> w.items,
     separator |-> IF Len(w.items) > 0 /\ Len(w.seps) = Len(w.items)
                   THEN w.seps[Len(w.seps)] ELSE <<>>]

letStatement(w) == [type |-> "LetStatement", variable |-> w.target, expression |-> w.expr]

gotoStatement(w) == [type |-> "GotoStatement", lineNumber |-> w.target]

forStatement(w) ==
    [type |-> "ForStatement", variable |-> w.variable, start |-> w.start, end |-> w.end,
     step |-> w.step]

nextStatement(w) == [type |-> "NextStatement", variable |-> w.variable]

dataStatement(w) == [type |-> "DataStatement", values |-> w.values]

readStatement(w) == [type |-> "ReadStatement", variables |-> w.targets]

restoreStatement(w) == [type |-> "RestoreStatement", lineNumber |-> w.arg]

dimStatement(w) == [type |-> "DimStatement", arrays |-> w.decls]

endStatement(w) == [type |-> "EndStatement"]

remStatement(w) == [type |-> "RemStatement"]

\* stmt.lineNumber = lineNumber
SetLineNumber(stmt, lineNumber) ==
    [k \in DOMAIN stmt \cup {"lineNumber"} |->
        IF k = "lineNumber" THEN lineNumber ELSE stmt[k]]

RECURSIVE statement(_)
RECURSIVE ifStatement(_)

ifStatement(w) ==
    [type |-> "IfStatement",
     condition |-> w.cond,
     thenStatement |-> statement(w.thenW),
     elseStatement |-> IF w.elseW = NoNode THEN NoNode ELSE statement(w.elseW)]

statement(w) ==
    LET lineNumber == w.num
        stmt == CASE w.kw = "PRINT" -> printStatement(w)
                  [] w.kw = "LET" -> letStatement(w)
                  [] w.kw = "GOTO" -> gotoStatement(w)
                  [] w.kw = "IF" -> ifStatement(w)
                  [] w.kw = "FOR" -> forStatement(w)
                  [] w.kw = "NEXT" -> nextStatement(w)
                  [] w.kw = "DATA" -> dataStatement(w)
                  [] w.kw = "READ" -> readStatement(w)
                  [] w.kw = "RESTORE" -> restoreStatement(w)
                  [] w.kw = "DIM" -> dimStatement(w)
                  [] w.kw = "END" -> endStatement(w)
                  [] w.kw = "REM" -> remStatement(w)
    IN SetLineNumber(stmt, lineNumber)

parse(src) == [i \in 1..Len(src) |-> statement(src[i])]

-----------------------------------------------------------------------------
(* Interpreter (interpreter.ts): program organisation *)

\* a sort that is not stable: s goes in front of the statements of equal number
InsertSortedUnstable(sorted, s) ==
    LET k == Cardinality({i \in 1..Len(sorted) : sorted[i].lineNumber < s.lineNumber})
    IN SubSeq(sorted, 1, k) \o <<s>> \o SubSeq(sorted, k + 1, Len(sorted))

\* the place Array.prototype.sort gives s among the already sorted numbered
\* statements: behind every statement whose line number is not greater
InsertSorted(sorted, s) ==
    LET k == Cardinality({i \in 1..Len(sorted) : sorted[i].lineNumber <= s.lineNumber})
    IN SubSeq(sorted, 1, k) \o <<s>> \o SubSeq(sorted, k + 1, Len(sorted))

RECURSIVE sort(_)
sort(numbered) ==
    IF numbered = <<>> THEN <<>>
    ELSE InsertSorted(sort(SubSeq(numbered, 1, Len(numbered) - 1)),
                      numbered[Len(numbered)])

organizeStatements(statements) ==
    LET numberedStatements == SelectSeq(statements, LAMBDA stmt : stmt.lineNumber # Undefined)
        unnumberedStatements == SelectSeq(statements, LAMBDA stmt : stmt.lineNumber = Undefined)
    IN sort(numberedStatements) \o unnumberedStatements

\* a collection that puts the values of a later DATA statement first
RECURSIVE collectDataStatementsReversed(_)
collectDataStatementsReversed(ordered) ==
    IF ordered = <<>> THEN <<>>
    ELSE collectDataStatementsReversed(Tail(ordered))
           \o (IF Head(ordered).type = "DataStatement" THEN Head(ordered).values ELSE <<>>)

RECURSIVE collectDataStatements(_)
collectDataStatements(ordered) ==
    IF ordered = <<>> THEN <<>>
    ELSE (IF Head(ordered).type = "DataStatement" THEN Head(ordered).values ELSE <<>>)
           \o collectDataStatements(Tail(ordered))

-----------------------------------------------------------------------------
(* Interpreter: errors, JS arrays *)

Throw(name, message) == [type |-> "throw", name |-> name, message |-> message]

RuntimeError(message) == Throw("RuntimeError", message)

IsThrow(r) == r.type = "throw"

Zero == NumberValue(0)

IsArray(e) == e.type = "Array"

\* an allocation of n - 1 elements: the highest declared index is missing
NewArrayShort(n, v) ==
    [type |-> "Array", length |-> n - 1, items |-> [i \in 0..(n - 2) |-> v]]

\* new Array(n).fill(v)
NewArray(n, v) == [type |-> "Array", length |-> n, items |-> [i \in 0..(n - 1) |-> v]]

\* a store that overwrites every element of the array
ArrayPutAll(a, i, v) ==
    [type |-> "Array",
     length |-> IF i >= a.length THEN i + 1 ELSE a.length,
     items |-> [k \in DOMAIN a.items \cup {i} |-> v]]

\* a[i] = v on a JS array: any integer is accepted as a key
ArrayPut(a, i, v) ==
    [type |-> "Array",
     length |-> IF i >= a.length THEN i + 1 ELSE a.length,
     items |-> [k \in DOMAIN a.items \cup {i} |-> IF k = i THEN v ELSE a.items[k]]]

RECURSIVE createMultiDimensionalArray(_)
createMultiDimensionalArray(dimensions) ==
    IF dimensions[1] + 1 < 0 THEN Throw("Error", <<"Invalid array length">>)
    ELSE IF Len(dimensions) = 1 THEN NewArray(dimensions[1] + 1, Zero)
    ELSE IF dimensions[1] + 1 = 0 THEN NewArray(0, Zero)
    ELSE LET row == createMultiDimensionalArray(Tail(dimensions))
         IN IF IsThrow(row) THEN row ELSE NewArray(dimensions[1] + 1, row)

\* a read that fails outside the allocated extent
RECURSIVE getArrayElementThrowing(_, _)
getArrayElementThrowing(current, indices) ==
    IF indices = <<>> THEN (IF IsArray(current) THEN Zero ELSE current)
    ELSE IF IsArray(current)
         THEN IF Head(indices) \notin DOMAIN current.items
              THEN RuntimeError(<<"Array index out of range">>)
              ELSE getArrayElementThrowing(current.items[Head(indices)], Tail(indices))
         ELSE Zero

RECURSIVE getArrayElement(_, _)
getArrayElement(current, indices) ==
    IF indices = <<>> THEN (IF IsArray(current) THEN Zero ELSE current)
    ELSE IF IsArray(current)
         THEN IF Head(indices) \notin DOMAIN current.items THEN Zero
              ELSE getArrayElement(current.items[Head(indices)], Tail(indices))
         ELSE Zero

RECURSIVE setArrayElement(_, _, _)
setArrayElement(current, indices, value) ==
    IF ~IsArray(current) THEN current
    ELSE IF Len(indices) = 1 THEN ArrayPut(current, indices[1], value)
    ELSE IF Head(indices) \notin DOMAIN current.items THEN current
    ELSE [current EXCEPT !.items[Head(indices)] =
              setArrayElement(current.items[Head(indices)], Tail(indices), value)]

-----------------------------------------------------------------------------
(* Interpreter: expression evaluator.  ctx is the RuntimeContext together  *)
(* with output, running and thrown (the exception in flight, or NoNode).   *)

Abs(x) == IF x < 0 THEN -x ELSE x

Multiply(l, r) ==
    LET q == (Abs(l) * Abs(r)) \div Scale
    IN IF (l < 0) # (r < 0) THEN -q ELSE q

Divide(l, d) ==
    LET q == (Abs(l) * Scale) \div Abs(d)
    IN IF (l < 0) # (d < 0) THEN -q ELSE q

\* Math.pow for a whole exponent >= 0
RECURSIVE Pow(_, _)
Pow(l, r) == IF r <= 0 THEN Num(1) ELSE Multiply(l, Pow(l, r - Scale))

Bool(b) == NumberValue(IF b THEN Num(1) ELSE 0)

RECURSIVE evaluateExpression(_, _)
RECURSIVE evaluateIndices(_, _)
RECURSIVE getVariable(_, _)
RECURSIVE evaluateBinaryExpression(_, _)
RECURSIVE evaluateUnaryExpression(_, _)

\* the index loop of getVariable and assignVariable: the floored indices,
\* or the first exception
IndexList(indexValue, rest) ==
    IF IsThrow(indexValue) THEN indexValue
    ELSE IF indexValue.type # "number"
         THEN RuntimeError(<<"Array indices must be numbers">>)
         ELSE IF IsThrow(rest) THEN rest
              ELSE [type |-> "indices",
                    list |-> <<ToInt(MathFloor(indexValue.value))>> \o rest.list]

evaluateIndices(indices, ctx) ==
    IF indices = <<>> THEN [type |-> "indices", list |-> <<>>]
    ELSE IndexList(evaluateExpression(Head(indices), ctx),
                   evaluateIndices(Tail(indices), ctx))

endsWithDollar(name) == name # <<>> /\ name[Len(name)] = "$"

ArrayElementAt(array, indices) ==
    IF IsThrow(indices) THEN indices ELSE getArrayElement(array, indices.list)

getVariable(variable, ctx) ==
    IF variable.indices # <<>>
    THEN IF variable.name \notin DOMAIN ctx.arrays
         THEN RuntimeError(<<"Undefined array: ">> \o variable.name)
         ELSE ArrayElementAt(ctx.arrays[variable.name].value,
                             evaluateIndices(variable.indices, ctx))
    ELSE IF variable.name \notin DOMAIN ctx.variables
         THEN (IF endsWithDollar(variable.name) THEN StringValue(<<>>) ELSE Zero)
         ELSE ctx.variables[variable.name]

\* the switch of evaluateBinaryExpression on the operator
ArithmeticOperator(op, l, r) ==
    CASE op = "-" -> NumberValue(Double(l - r))
      [] op = "*" -> NumberValue(Double(Multiply(l, r)))
      [] op = "/" -> IF r = 0 THEN RuntimeError(<<"Division by zero">>)
                     ELSE NumberValue(Double(Divide(l, r)))
      [] op \in {"^", "**"} -> NumberValue(Double(Pow(l, r)))

ComparisonOperator(op, c) ==
    CASE op = "=" -> Bool(c = 0)
      [] op \in {"<>", "!="} -> Bool(c # 0)
      [] op = "<" -> Bool(c < 0)
      [] op = ">" -> Bool(c > 0)
      [] op = "<=" -> Bool(c <= 0)
      [] op = ">=" -> Bool(c >= 0)

LogicalOperator(op, l, r) ==
    IF op = "AND" THEN Bool(l /\ r) ELSE Bool(l \/ r)

BinaryOperator(op, left, right) ==
    IF IsThrow(left) THEN left
    ELSE IF IsThrow(right) THEN right
    ELSE CASE op = "+" ->
                IF left.type = "string" \/ right.type = "string"
                THEN StringValue(valueToString(left) \o valueToString(right))
                ELSE NumberValue(Double(toNumber(left) + toNumber(right)))
           [] op \in {"-", "*", "/", "^", "**"} ->
                ArithmeticOperator(op, toNumber(left), toNumber(right))
           [] op \in {"=", "<>", "!=", "<", ">", "<=", ">="} ->
                ComparisonOperator(op, compareValues(left, right))
           [] op \in {"AND", "OR"} ->
                LogicalOperator(op, isTruthy(left), isTruthy(right))
           [] OTHER -> RuntimeError(<<"Unknown binary operator: ", op>>)

evaluateBinaryExpression(expression, ctx) ==
    BinaryOperator(expression.operator,
                   evaluateExpression(expression.left, ctx),
                   evaluateExpression(expression.right, ctx))

\* the switch of evaluateUnaryExpression on the operator
UnaryOperator(op, operand) ==
    IF IsThrow(operand) THEN operand
    ELSE CASE op = "-" -> NumberValue(-toNumber(operand))
           [] op = "+" -> NumberValue(toNumber(operand))
           [] op = "NOT" -> NumberValue(IF isTruthy(operand) THEN 0 ELSE Num(1))
           [] OTHER -> RuntimeError(<<"Unknown unary operator: ", op>>)

evaluateUnaryExpression(expression, ctx) ==
    UnaryOperator(expression.operator, evaluateExpression(expression.operand, ctx))

evaluateExpression(expression, ctx) ==
    CASE expression.type = "NumberLiteral" -> NumberValue(expression.value)
      [] expression.type = "StringLiteral" -> StringValue(expression.value)
      [] expression.type = "Variable" -> getVariable(expression, ctx)
      [] expression.type = "BinaryExpression" -> evaluateBinaryExpression(expression, ctx)
      [] expression.type = "UnaryExpression" -> evaluateUnaryExpression(expression, ctx)
      [] OTHER -> RuntimeError(<<"Unknown expression type: ", expression.type>>)

-----------------------------------------------------------------------------
(* Interpreter: stmt executors.  Each maps a context to the context   *)
(* the executor leaves; an exception leaves in thrown.                     *)

Raise(ctx, t) == [ctx EXCEPT !.thrown = t]

\* Map.prototype.set on context.variables and context.arrays
MapSet(m, key, v) == [k \in DOMAIN m \cup {key} |-> IF k = key THEN v ELSE m[k]]

\* the element store of assignVariable, once the indices are evaluated
StoreElement(ctx, name, indices, value) ==
    IF IsThrow(indices) THEN Raise(ctx, indices)
    ELSE [ctx EXCEPT !.arrays[name].value =
              setArrayElement(ctx.arrays[name].value, indices.list, value)]

assignVariable(ctx, variable, value) ==
    IF variable.indices # <<>>
    THEN IF variable.name \notin DOMAIN ctx.arrays
         THEN Raise(ctx, RuntimeError(<<"Undefined array: ">> \o variable.name))
         ELSE StoreElement(ctx, variable.name,
                           evaluateIndices(variable.indices, ctx), value)
    ELSE [ctx EXCEPT !.variables = MapSet(ctx.variables, variable.name, value)]

Comma == <<"c", "o", "m", "m", "a">>

Semicolon == <<"s", "e", "m", "i", "c", "o", "l", "o", "n">>

RECURSIVE PrintText(_, _, _)
PrintText(values, i, separator) ==
    IF i > Len(values) THEN <<>>
    ELSE valueToString(values[i])
           \o (IF i < Len(values) /\ separator = Comma THEN <<"\t">> ELSE <<>>)
           \o PrintText(values, i + 1, separator)

\* the exception of the first expression that throws
FirstThrow(values) ==
    values[CHOOSE i \in DOMAIN values :
              IsThrow(values[i]) /\ \A j \in 1..(i - 1) : ~IsThrow(values[j])]

\* a PRINT that puts its entry in the place of the output produced so far
PrintValuesReplacing(ctx, values, separator) ==
    IF \E i \in DOMAIN values : IsThrow(values[i])
    THEN Raise(ctx, FirstThrow(values))
    ELSE [ctx EXCEPT !.output = <<PrintText(values, 1, separator)>>]

\* the loop and the push of executePrint over the evaluated expressions
PrintValues(ctx, values, separator) ==
    IF \E i \in DOMAIN values : IsThrow(values[i])
    THEN Raise(ctx, FirstThrow(values))
    ELSE [ctx EXCEPT !.output =
              Append(ctx.output,
                     PrintText(values, 1, separator)
                       \o (IF separator # Semicolon THEN <<"\n">> ELSE <<>>))]

executePrint(ctx, stmt) ==
    PrintValues(ctx,
                [i \in 1..Len(stmt.expressions) |->
                    evaluateExpression(stmt.expressions[i], ctx)],
                stmt.separator)

AssignValue(ctx, variable, value) ==
    IF IsThrow(value) THEN Raise(ctx, value)
    ELSE assignVariable(ctx, variable, value)

executeLet(ctx, stmt) ==
    AssignValue(ctx, stmt.variable, evaluateExpression(stmt.expression, ctx))

LineText(lineNumber) ==
    IF lineNumber = Undefined THEN <<"undefined">> ELSE NatToString(lineNumber)

\* the 0-based index of the first stmt whose lineNumber is lineNumber, or -1
findStatementIndex(lineNumber) ==
    LET hits == {i \in 1..Len(orderedStatements) :
                    orderedStatements[i].lineNumber = lineNumber}
    IN IF hits = {} THEN -1
       ELSE (CHOOSE i \in hits : \A j \in hits : i <= j) - 1

executeGoto(ctx, stmt) ==
    LET targetIndex == findStatementIndex(stmt.lineNumber)
    IN IF targetIndex = -1
       THEN Raise(ctx, RuntimeError(<<"Line number ">> \o LineText(stmt.lineNumber)
                                       \o <<" not found">>))
       ELSE [ctx EXCEPT !.programCounter = targetIndex - 1]

\* forLoops is an insertion ordered Map keyed by the loop variable
LoopIndex(loops, variable) ==
    LET hits == {i \in 1..Len(loops) : loops[i].variable = variable}
    IN IF hits = {} THEN 0 ELSE CHOOSE i \in hits : TRUE

\* a set that keeps the entry the key already has and adds a second one
LoopSetAppending(loops, forLoop) == Append(loops, forLoop)

\* Map.prototype.set: an existing key keeps its place in the order
LoopSet(loops, forLoop) ==
    LET i == LoopIndex(loops, forLoop.variable)
    IN IF i = 0 THEN Append(loops, forLoop) ELSE [loops EXCEPT ![i] = forLoop]

\* a delete that leaves the Map as it is
LoopDeleteKeeping(loops, variable) == loops

\* Map.prototype.delete
LoopDelete(loops, variable) == SelectSeq(loops, LAMBDA l : l.variable # variable)

\* the type check and the two sets of executeFor, once the bounds are evaluated
OpenLoop(ctx, variable, start, end, step) ==
    IF IsThrow(start) THEN Raise(ctx, start)
    ELSE IF IsThrow(end) THEN Raise(ctx, end)
    ELSE IF IsThrow(step) THEN Raise(ctx, step)
    ELSE IF start.type # "number" \/ end.type # "number" \/ step.type # "number"
         THEN Raise(ctx, RuntimeError(<<"FOR loop bounds must be numbers">>))
         ELSE [ctx EXCEPT !.forLoops = LoopSet(ctx.forLoops,
                                               [variable |-> variable,
                                                current |-> start.value,
                                                end |-> end.value,
                                                step |-> step.value,
                                                startLine |-> ctx.programCounter]),
                          !.variables = MapSet(ctx.variables, variable, start)]

executeFor(ctx, stmt) ==
    OpenLoop(ctx, stmt.variable,
             evaluateExpression(stmt.start, ctx),
             evaluateExpression(stmt.end, ctx),
             IF stmt.step # NoNode THEN evaluateExpression(stmt.step, ctx)
             ELSE NumberValue(Num(1)))

getLastForVariable(ctx) ==
    IF ctx.forLoops = <<>> THEN <<>> ELSE ctx.forLoops[Len(ctx.forLoops)].variable

\* a loop test that leaves out the end value itself
shouldContinueStrict(forLoop) ==
    IF forLoop.step > 0 THEN forLoop.current < forLoop.end
    ELSE forLoop.current > forLoop.end

\* a loop test that takes every step for a positive one
shouldContinueUpward(forLoop) == forLoop.current <= forLoop.end

\* Check if loop should continue
shouldContinue(forLoop) ==
    IF forLoop.step > 0 THEN forLoop.current <= forLoop.end
    ELSE forLoop.current >= forLoop.end

\* the update of the loop variable and the test of executeNext
StepLoop(ctx, variable, i, forLoop) ==
    IF shouldContinue(forLoop)
    THEN [ctx EXCEPT !.forLoops[i] = forLoop,
                     !.variables = MapSet(ctx.variables, variable,
                                          NumberValue(forLoop.current)),
                     !.programCounter = forLoop.startLine]
    ELSE [ctx EXCEPT !.forLoops = LoopDelete(ctx.forLoops, variable),
                     !.variables = MapSet(ctx.variables, variable,
                                          NumberValue(forLoop.current))]

\* a NEXT that advances the value the variable holds, not the loop's own
NextLoopFromVariable(ctx, variable, i) ==
    IF i = 0
    THEN Raise(ctx, RuntimeError(<<"NEXT without matching FOR: ">> \o variable))
    ELSE StepLoop(ctx, variable, i,
                  [ctx.forLoops[i] EXCEPT !.current =
                      (IF ctx.variables[variable].type = "number"
                       THEN ctx.variables[variable].value ELSE @) + ctx.forLoops[i].step])

\* forLoops.get(variable) and what follows it
NextLoop(ctx, variable, i) ==
    IF i = 0
    THEN Raise(ctx, RuntimeError(<<"NEXT without matching FOR: ">> \o variable))
    ELSE StepLoop(ctx, variable, i,
                  [ctx.forLoops[i] EXCEPT !.current = Double(@ + ctx.forLoops[i].step)])

NextOn(ctx, variable) ==
    IF variable = <<>> THEN Raise(ctx, RuntimeError(<<"NEXT without FOR">>))
    ELSE NextLoop(ctx, variable, LoopIndex(ctx.forLoops, variable))

executeNext(ctx, stmt) ==
    NextOn(ctx, IF stmt.variable # <<>> THEN stmt.variable
                ELSE getLastForVariable(ctx))

\* the runtime value of a DATA value
DataValue(value) ==
    IF value.type = "number" THEN NumberValue(value.value)
    ELSE StringValue(value.value)

\* a READ that starts again at the head of the pool when the pool is used up
RECURSIVE executeReadWrapping(_, _)
executeReadWrapping(ctx, targets) ==
    IF targets = <<>> \/ dataValues = <<>> THEN ctx
    ELSE executeReadWrapping(
             assignVariable([ctx EXCEPT !.dataPointer = (@ % Len(dataValues)) + 1],
                            Head(targets),
                            DataValue(dataValues[(ctx.dataPointer % Len(dataValues)) + 1])),
             Tail(targets))

\* a READ that takes no value unless the pool holds one for every target
RECURSIVE executeReadAllOrNothing(_, _)
executeReadAllOrNothing(ctx, targets) ==
    IF targets = <<>> \/ ctx.thrown # NoNode THEN ctx
    ELSE IF ctx.dataPointer + Len(targets) > Len(dataValues)
         THEN Raise(ctx, RuntimeError(<<"Out of DATA">>))
         ELSE executeReadAllOrNothing(
                  assignVariable([ctx EXCEPT !.dataPointer = @ + 1], Head(targets),
                                 DataValue(dataValues[ctx.dataPointer + 1])),
                  Tail(targets))

\* a READ that moves the pointer by two for every target
RECURSIVE executeReadSkipping(_, _)
executeReadSkipping(ctx, targets) ==
    IF targets = <<>> \/ ctx.thrown # NoNode THEN ctx
    ELSE IF ctx.dataPointer >= Len(dataValues)
         THEN Raise(ctx, RuntimeError(<<"Out of DATA">>))
         ELSE executeReadSkipping(
                  assignVariable([ctx EXCEPT !.dataPointer = @ + 2], Head(targets),
                                 DataValue(dataValues[ctx.dataPointer + 1])),
                  Tail(targets))

RECURSIVE executeRead(_, _)

ReadRest(ctx, targets) ==
    IF ctx.thrown # NoNode THEN ctx ELSE executeRead(ctx, targets)

executeRead(ctx, targets) ==
    IF targets = <<>> THEN ctx
    ELSE IF ctx.dataPointer >= Len(dataValues)
         THEN Raise(ctx, RuntimeError(<<"Out of DATA">>))
         ELSE ReadRest(assignVariable([ctx EXCEPT !.dataPointer = @ + 1],
                                      Head(targets),
                                      DataValue(dataValues[ctx.dataPointer + 1])),
                       Tail(targets))

\* the scanning loop of executeRestore from table position i on
RECURSIVE RestoreScan(_, _, _)
RestoreScan(i, dataIndex, lineNumber) ==
    IF i > Len(orderedStatements) THEN dataIndex
    ELSE LET stmt == orderedStatements[i]
         IN IF stmt.type = "DataStatement" /\ stmt.lineNumber # Undefined
                 /\ stmt.lineNumber # 0 /\ stmt.lineNumber >= lineNumber
            THEN dataIndex
            ELSE RestoreScan(i + 1,
                             IF stmt.type = "DataStatement"
                             THEN dataIndex + Len(stmt.values) ELSE dataIndex,
                             lineNumber)

executeRestore(ctx, stmt) ==
    IF stmt.lineNumber # Undefined
    THEN [ctx EXCEPT !.dataPointer = RestoreScan(1, 0, stmt.lineNumber)]
    ELSE [ctx EXCEPT !.dataPointer = 0]

DimensionList(dimValue, rest) ==
    IF IsThrow(dimValue) THEN dimValue
    ELSE IF dimValue.type # "number"
         THEN RuntimeError(<<"Array dimensions must be numbers">>)
         ELSE IF IsThrow(rest) THEN rest
              ELSE [type |-> "indices",
                    list |-> <<ToInt(MathFloor(dimValue.value))>> \o rest.list]

RECURSIVE evaluateDimensions(_, _)
evaluateDimensions(dimensions, ctx) ==
    IF dimensions = <<>> THEN [type |-> "indices", list |-> <<>>]
    ELSE DimensionList(evaluateExpression(Head(dimensions), ctx),
                       evaluateDimensions(Tail(dimensions), ctx))

\* context.arrays.set(name, ...) for the array that was created
StoreArray(ctx, name, array) ==
    IF IsThrow(array) THEN Raise(ctx, array)
    ELSE [ctx EXCEPT !.arrays = MapSet(ctx.arrays, name,
                                       [type |-> "array", value |-> array])]

DeclareArray(ctx, name, dimensions) ==
    IF IsThrow(dimensions) THEN Raise(ctx, dimensions)
    ELSE StoreArray(ctx, name, createMultiDimensionalArray(dimensions.list))

RECURSIVE executeDim(_, _)

DimRest(ctx, decls) ==
    IF ctx.thrown # NoNode THEN ctx ELSE executeDim(ctx, decls)

executeDim(ctx, decls) ==
    IF decls = <<>> THEN ctx
    ELSE DimRest(DeclareArray(ctx, Head(decls).name,
                              evaluateDimensions(Head(decls).dimensions, ctx)),
                 Tail(decls))

\* an END that leaves the run loop running
executeEndRunning(ctx) == ctx

executeEnd(ctx) == [ctx EXCEPT !.running = FALSE]

RECURSIVE executeStatement(_, _)
RECURSIVE executeIf(_, _)

Branch(ctx, stmt, condition) ==
    IF IsThrow(condition) THEN Raise(ctx, condition)
    ELSE IF ~isTruthy(condition) /\ stmt.elseStatement = NoNode THEN ctx
    ELSE executeStatement(ctx, IF isTruthy(condition) THEN stmt.thenStatement
                               ELSE stmt.elseStatement)

executeIf(ctx, stmt) ==
    Branch(ctx, stmt, evaluateExpression(stmt.condition, ctx))

executeStatement(ctx, stmt) ==
    CASE stmt.type = "PrintStatement" -> executePrint(ctx, stmt)
      [] stmt.type = "LetStatement" -> executeLet(ctx, stmt)
      [] stmt.type = "GotoStatement" -> executeGoto(ctx, stmt)
      [] stmt.type = "IfStatement" -> executeIf(ctx, stmt)
      [] stmt.type = "ForStatement" -> executeFor(ctx, stmt)
      [] stmt.type = "NextStatement" -> executeNext(ctx, stmt)
      [] stmt.type = "ReadStatement" -> executeRead(ctx, stmt.variables)
      [] stmt.type = "RestoreStatement" -> executeRestore(ctx, stmt)
      [] stmt.type = "DimStatement" -> executeDim(ctx, stmt.arrays)
      [] stmt.type = "EndStatement" -> executeEnd(ctx)
      [] stmt.type = "RemStatement" -> ctx
      [] stmt.type = "DataStatement" -> ctx
      [] OTHER -> Raise(ctx, RuntimeError(<<"Unknown stmt type: ", stmt.type>>))

-----------------------------------------------------------------------------
(* Programs given to the interpreter *)

Str1(c) == <<c>>

N(n) == NumberLiteral(Num(n))

\* -n, as the parser builds it
Neg(n) == UnaryExpression("-", N(n))

S(s) == StringLiteral(s)

V(name) == Variable(name, <<>>)

I == <<"I">>

J == <<"J">>

A == <<"A">>

B == <<"B">>

X == <<"X">>

DataNumber(n) == [type |-> "number", value |-> Num(n)]

DataString(s) == [type |-> "string", value |-> s]

\* all sequences over lines of length 1..n
RECURSIVE SeqsUpTo(_, _)
SeqsUpTo(lines, n) ==
    IF n = 0 THEN {<<>>}
    ELSE LET shorter == SeqsUpTo(lines, n - 1)
         IN shorter \cup {Append(p, l) : p \in shorter, l \in lines}

Numbered(lines) == [i \in 1..Len(lines) |-> At(10 * i, lines[i])]

\* straight-line programs: every order of line numbers, ties and unnumbered lines
OrderBodies ==
    {WPrint(<<S(A)>>, <<>>), WPrint(<<S(B)>>, <<>>), WRead(<<V(X)>>),
     WData(<<DataNumber(1)>>)}

OrderLines == {At(n, w) : n \in {Undefined, 10, 20}, w \in OrderBodies}

OrderPrograms == SeqsUpTo(OrderLines, 3) \ {<<>>}

\* three numbered lines, any of which may be a GOTO
GotoBodies ==
    {WGoto(t) : t \in {10, 20, 30, 40}} \cup {WPrint(<<S(A)>>, <<>>), WEnd}

\* two statements sharing line number 20, fallen into and jumped to
DuplicatePrograms ==
    {<<At(10, g), At(20, WPrint(<<S(A)>>, <<>>)), At(20, WPrint(<<S(B)>>, <<>>)),
       At(30, WEnd)>> : g \in {WGoto(20), WPrint(<<S(X)>>, <<>>)}}
      \cup
    {<<At(20, WPrint(<<S(B)>>, <<>>)), At(10, WGoto(20)), At(20, WPrint(<<S(A)>>, <<>>))>>,
     <<At(20, WPrint(<<S(A)>>, <<>>)), At(20, WGoto(20))>>}

GotoPrograms ==
    {<<At(10, a), At(20, b), At(30, c)>> : a \in GotoBodies, b \in GotoBodies, c \in GotoBodies}
      \cup {<<WPrint(<<S(A)>>, <<>>), WGoto(t), WPrint(<<S(B)>>, <<>>)>> : t \in {10, 20}}
      \cup {<<At(10, WPrint(<<S(A)>>, <<>>)), At(20, WGoto(10)), WGoto(20)>>}
      \cup DuplicatePrograms

\* DATA, READ and RESTORE, with and without line numbers
RestoreArgs == {Undefined, 10, 25, 99}

DataPrograms ==
    {<<At(10, WData(<<DataNumber(1), DataString(B)>>)), At(20, WRead(<<V(A)>>)),
       At(25, WData(<<DataNumber(3)>>)), At(30, WRestore(n)),
       At(40, WRead(<<V(X), V(B)>>)), At(50, WPrint(<<V(X)>>, <<>>))>> : n \in RestoreArgs}
      \cup
    {<<WData(<<DataNumber(1), DataString(B)>>), WRead(<<V(A)>>),
       WData(<<DataNumber(3)>>), WRestore(n),
       WRead(<<V(X), V(B)>>), WPrint(<<V(X)>>, <<>>)>> : n \in RestoreArgs}
      \cup
    {<<At(5, WRestore(n)), At(10, WData(<<DataNumber(7)>>)),
       At(20, WRead(<<V(A)>>))>> : n \in {Undefined, 99}}
      \cup
    {<<At(30, WRead(<<V(A), V(B)>>)), At(10, WData(<<DataNumber(1)>>)),
       WData(<<DataString(B), DataNumber(3)>>), At(20, WRead(<<V(X)>>)),
       At(40, WPrint(<<V(X), V(A), V(B)>>, <<>>))>>,
     <<At(10, WRead(<<V(A), V(A)>>)), At(20, WData(<<DataNumber(1)>>)),
       At(30, WData(<<DataNumber(2), DataNumber(3)>>)), At(40, WRead(<<V(B)>>)),
       At(50, WRead(<<V(X)>>)), At(60, WPrint(<<S(A)>>, <<>>))>>,
     <<At(10, WData(<<DataNumber(1)>>)), At(20, WRead(<<V(A), V(B)>>)),
       At(30, WPrint(<<S(A)>>, <<>>))>>,
     <<At(10, WRead(<<V(A)>>)), At(20, WPrint(<<S(A)>>, <<>>))>>,
     <<At(10, WData(<<DataNumber(1), DataString(B)>>)), At(20, WLet(V(X), N(2))),
       At(30, WRead(<<V(A), V(B), V(X)>>)), At(40, WPrint(<<V(X)>>, <<>>))>>}
      \cup
    {<<At(10, WData(values)), At(20, WDim(<<[name |-> A, dimensions |-> <<N(1)>>]>>)),
       At(30, WRead(<<Variable(A, <<N(0)>>), Variable(B, <<N(0)>>), V(X)>>))>> :
        values \in {<<DataNumber(1)>>, <<DataNumber(1), DataNumber(3)>>,
                    <<DataNumber(1), DataNumber(3), DataString(B)>>}}
      \cup
    {<<At(10, WData(<<DataNumber(1), DataNumber(3)>>)), At(20, WRead(<<V(A)>>)),
       At(30, WIf(c, WRead(<<V(B)>>), WRestore(Undefined))),
       At(40, WIf(c, WRestore(Undefined), WRead(<<V(B)>>)))>> : c \in {N(0), N(1)}}

\* PRINT with up to three items and every choice of separators
PrintItems == {N(1), N(2), S(A)}

PrintWritten ==
    {WPrint(<<>>, <<>>)}
      \cup UNION {{WPrint(items, seps) :
                     seps \in {q \in SeqsUpTo({Comma, Semicolon}, 2) :
                                 Len(q) \in {Len(items) - 1, Len(items)}}} :
                  items \in SeqsUpTo(PrintItems, 2) \ {<<>>}}
      \cup {WPrint(<<N(1), N(2), N(3)>>, seps) :
              seps \in {q \in SeqsUpTo({Comma, Semicolon}, 3) : Len(q) \in {2, 3}}}

PrintPrograms ==
    {<<At(10, w)>> : w \in PrintWritten}
      \cup {<<At(10, WPrint(<<S(A)>>, <<Semicolon>>)), At(20, WPrint(<<S(B)>>, <<>>))>>}

\* one FOR/NEXT loop around a PRINT of the loop variable
LoopSteps == {NoNode, Neg(1), N(0), N(1), N(2)}

SingleLoop(s, e, k, nextVar) ==
    <<At(10, WFor(I, N(s), N(e), k)), At(20, WPrint(<<V(I)>>, <<Semicolon>>)),
      At(30, WNext(nextVar))>>

\* a loop whose body assigns to the loop variable before it prints it
AssignedLoop(e, k, x, nextVar) ==
    <<At(10, WFor(I, N(1), N(e), k)), At(20, WLet(V(I), x)),
      At(30, WPrint(<<V(I)>>, <<Semicolon>>)), At(40, WNext(nextVar))>>

AssignedValues == {N(0), N(9), S(A)}

AssignedLoops ==
    {AssignedLoop(e, k, x, v) :
        e \in {2, 3}, k \in {NoNode, N(2)}, x \in AssignedValues, v \in {I, <<>>}}

\* loops over the last integers that are all numbers, and over the first
\* that are not
EdgeLoops ==
    {<<At(10, WFor(I, N(s), N(s + 2), NoNode)), At(20, WNext(I))>> :
        s \in {Exact - 3, Exact}}
      \cup {<<At(10, WFor(I, N(Exact + 2), N(Exact), Neg(1))), At(20, WNext(I))>>}

LoopPrograms ==
    {SingleLoop(s, e, k, v) : s \in 0..3, e \in 0..4, k \in LoopSteps, v \in {I, <<>>}}
      \cup AssignedLoops
      \cup EdgeLoops

\* FOR statements opened and re-opened in every order before a NEXT
NestBodies ==
    {WFor(I, N(1), N(2), NoNode), WFor(J, N(1), N(2), NoNode),
     WNext(<<>>), WNext(I), WNext(J)}

\* a loop on I opened again, with other bounds and step, while it is open
ReopenPrograms ==
    {<<At(10, WFor(I, N(1), N(e1), k1)), At(20, WFor(I, N(s2), N(e2), k2)),
       At(30, WPrint(<<V(I)>>, <<Semicolon>>)), At(40, WNext(I)), At(50, WNext(v))>> :
        e1 \in {3, 4}, k1 \in {NoNode, N(2)}, s2 \in {1, 2}, e2 \in {2, 3},
        k2 \in {NoNode, N(2)}, v \in {I, <<>>}}

\* FOR I = 1 TO m / FOR J = 1 TO n / PRINT I; J; / NEXT J / NEXT I
NestedLoops(m, n) ==
    <<At(10, WFor(I, N(1), N(m), NoNode)), At(20, WFor(J, N(1), N(n), NoNode)),
      At(30, WPrint(<<V(I), V(J)>>, <<Semicolon, Semicolon>>)),
      At(40, WNext(J)), At(50, WNext(I))>>

NestedSizes == {<<1, 1>>, <<1, 2>>, <<1, 3>>, <<2, 1>>, <<2, 2>>, <<3, 1>>}

NestedPrograms == {NestedLoops(mn[1], mn[2]) : mn \in NestedSizes}

NestPrograms ==
    {p \in SeqsUpTo(NestBodies, 4) : Len(p) >= 2} \cup ReopenPrograms \cup NestedPrograms

\* a failing statement between two PRINTs
FailingBodies ==
    {WPrint(<<BinaryExpression(N(n), "/", N(0))>>, <<>>) : n \in {0, 1, 2}}
      \cup
    {WPrint(<<BinaryExpression(N(1), "/", S(A))>>, <<>>),
     WPrint(<<S(B), BinaryExpression(N(1), "/", V(X))>>, <<Semicolon>>),
     WLet(V(X), BinaryExpression(S(A), "/", S(<<>>))),
     WRead(<<V(X)>>),
     WNext(I),
     WNext(<<>>),
     WGoto(99),
     WLet(Variable(A, <<N(1)>>), N(5)),
     WPrint(<<Variable(A, <<N(1)>>)>>, <<>>),
     WDim(<<[name |-> A, dimensions |-> <<S(X)>>]>>),
     WDim(<<[name |-> A, dimensions |-> <<Neg(2)>>]>>),
     WFor(I, S(A), N(2), NoNode),
     WIf(BinaryExpression(N(1), "/", N(0)), WPrint(<<S(X)>>, <<>>), NoNode),
     WIf(N(1), WPrint(<<BinaryExpression(N(4), "/", N(0))>>, <<>>), NoNode),
     WPrint(<<BinaryExpression(N(4), "/", N(2))>>, <<>>),
     WEnd,
     WIf(N(1), WEnd, NoNode),
     WIf(N(0), WEnd, NoNode),
     WIf(N(0), WPrint(<<S(X)>>, <<>>), WEnd),
     WRem}

FailingPrograms ==
    {<<At(10, WPrint(<<S(A)>>, <<>>)), At(20, w), At(30, WPrint(<<S(B)>>, <<>>))>> :
        w \in FailingBodies}
      \cup {<<At(10, w), At(20, WPrint(<<S(B)>>, <<>>))>> : w \in FailingBodies}

\* programs run one after the other on the same Interpreter object
ReusePrograms ==
    {<<At(10, WPrint(<<V(A)>>, <<>>)),
       At(20, WLet(V(A), BinaryExpression(V(A), "+", N(1))))>>,
     <<At(10, WFor(I, N(1), N(3), NoNode))>>,
     <<At(10, WPrint(<<S(X)>>, <<>>)), At(20, WNext(I))>>,
     <<At(10, WFor(I, N(1), N(1), NoNode)), At(20, WNext(I)), At(30, WNext(I))>>,
     <<At(10, WDim(<<[name |-> A, dimensions |-> <<N(2)>>]>>)),
       At(20, WLet(Variable(A, <<N(1)>>), N(5)))>>,
     <<At(10, WPrint(<<Variable(A, <<N(1)>>)>>, <<>>))>>,
     <<At(10, WPrint(<<S(A)>>, <<>>)), At(20, WPrint(<<S(B)>>, <<>>))>>,
     <<At(10, WNext(<<>>))>>,
     <<At(10, WPrint(<<S(A)>>, <<>>)), At(20, WPrint(<<S(B)>>, <<>>)),
       At(30, WFor(J, N(1), N(3), NoNode))>>}

\* arrays: a declaration, one or two element writes inside and outside the
\* declared bounds, and a read
ArrayIndexes == {Neg(1), N(0), N(1), N(2), N(3)}

\* index values -0.5, 0.5, 1.5 and whole ones
FractionIndexes ==
    {UnaryExpression("-", NumberLiteral(Half)), NumberLiteral(Half),
     NumberLiteral(Num(1) + Half), N(0), N(1)}

\* assignments with fewer and with more indices than the array has dimensions
WrongArityPrograms ==
    {<<At(10, WDim(<<[name |-> A, dimensions |-> <<N(1), N(2)>>]>>)),
       At(20, WLet(Variable(A, <<i>>), N(7))),
       At(30, WPrint(<<Variable(A, <<N(0), N(1)>>)>>, <<>>))>> : i \in {N(0), N(3)}}
      \cup
    {<<At(10, WDim(<<[name |-> A, dimensions |-> <<N(2)>>]>>)),
       At(20, WLet(Variable(A, <<N(0), N(1)>>), N(5))),
       At(30, WPrint(<<Variable(A, <<N(0)>>)>>, <<>>))>>}

ArrayPrograms ==
    {<<At(10, WDim(<<[name |-> A, dimensions |-> <<N(n)>>],
                     [name |-> B, dimensions |-> <<N(1)>>]>>)),
       At(20, WLet(Variable(B, <<N(0)>>), N(9))),
       At(30, WLet(V(X), N(4))),
       At(40, WLet(Variable(A, <<i>>), val)),
       At(50, WPrint(<<Variable(A, <<j>>)>>, <<>>))>> :
        n \in 0..2, i \in ArrayIndexes, j \in ArrayIndexes, val \in {N(5), S(X)}}
      \cup
    {<<At(10, WDim(<<[name |-> A, dimensions |-> <<N(1), N(2)>>]>>)),
       At(20, WLet(Variable(A, <<i, j>>), N(7))),
       At(30, WPrint(<<Variable(A, <<k, l>>)>>, <<>>))>> :
        i \in {N(0), N(1), N(2)}, j \in {N(0), N(2), N(3)},
        k \in {N(0), N(1)}, l \in {N(0), N(2), N(3)}}
      \cup
    {<<At(10, WDim(<<[name |-> A, dimensions |-> <<N(2)>>]>>)),
       At(20, WLet(Variable(A, <<N(1)>>), N(5))),
       At(30, WPrint(<<Variable(A, <<N(1)>>)>>, <<Semicolon>>)),
       At(40, WLet(Variable(A, <<N(1)>>), N(6))),
       At(50, WPrint(<<Variable(A, <<N(1)>>)>>, <<Semicolon>>)),
       At(60, WDim(<<[name |-> A, dimensions |-> <<N(1)>>]>>)),
       At(70, WPrint(<<Variable(A, <<N(1)>>)>>, <<Semicolon>>))>>}
      \cup
    {<<At(10, WDim(<<[name |-> A, dimensions |-> <<N(2)>>]>>)),
       At(20, WLet(Variable(A, <<i>>), N(5))),
       At(30, WPrint(<<Variable(A, <<j>>)>>, <<>>))>> :
        i \in FractionIndexes, j \in FractionIndexes}
      \cup WrongArityPrograms

\* IF with conditions of every kind, branches of several kinds, with and without ELSE
IfConditions ==
    {N(0), N(1), Neg(1), S(<<>>), S(A), V(X),
     BinaryExpression(V(X), "=", N(4)), BinaryExpression(N(1), "/", N(0))}

IfThens == {WPrint(<<S(A)>>, <<>>), WLet(V(X), N(3)), WEnd, WGoto(10), WGoto(40), WGoto(99)}

IfElses == {NoNode, WPrint(<<S(B)>>, <<>>), WLet(V(X), N(5)), WGoto(40)}

IfPrograms ==
    {<<At(10, WLet(V(X), x)), At(20, WIf(c, t, e)), At(30, WPrint(<<V(X)>>, <<>>)),
       At(40, WPrint(<<S(B)>>, <<Semicolon>>))>> :
        x \in {N(0), N(4)}, c \in IfConditions, t \in IfThens, e \in IfElses}
      \cup
    {<<WPrint(<<S(A)>>, <<>>), At(20, WIf(N(1), WGoto(20), NoNode))>>}

Suites ==
    {"order", "goto", "data", "print", "loop", "nest", "failing", "reuse", "array", "branch"}

Programs(s) ==
    CASE s = "order" -> OrderPrograms
      [] s = "goto" -> GotoPrograms
      [] s = "data" -> DataPrograms
      [] s = "print" -> PrintPrograms
      [] s = "loop" -> LoopPrograms
      [] s = "nest" -> NestPrograms
      [] s = "failing" -> FailingPrograms
      [] s = "reuse" -> ReusePrograms
      [] s = "array" -> ArrayPrograms
      [] s = "branch" -> IfPrograms

\* the suites in which the front end keeps one Interpreter for several programs
Reused(s) == s = "reuse"

-----------------------------------------------------------------------------
(* The Lexer (lexer.ts) *)

\* what peek and advance return at the end of the input
NUL == "NUL"

LowerCase ==
    <<"a", "b", "c", "d", "e", "f", "g", "h", "i", "j", "k", "l", "m", 
      "n", "o", "p", "q", "r", "s", "t", "u", "v", "w", "x", "y", "z"
      >>

UpperCase ==
    <<"A", "B", "C", "D", "E", "F", "G", "H", "I", "J", "K", "L", "M", 
      "N", "O", "P", "Q", "R", "S", "T", "U", "V", "W", "X", "Y", "Z"
      >>

\* String.prototype.toUpperCase, one character
toUpperCaseChar(c) ==
    IF \E i \in 1..Len(LowerCase) : LowerCase[i] = c
    THEN UpperCase[CHOOSE i \in 1..Len(LowerCase) : LowerCase[i] = c]
    ELSE c

toUpperCase(s) == [i \in 1..Len(s) |-> toUpperCaseChar(s[i])]

\* String.prototype.toLowerCase, one character
toLowerCaseChar(c) ==
    IF \E i \in 1..Len(UpperCase) : UpperCase[i] = c
    THEN LowerCase[CHOOSE i \in 1..Len(UpperCase) : UpperCase[i] = c]
    ELSE c

toLowerCase(s) == [i \in 1..Len(s) |-> toLowerCaseChar(s[i])]

\* the keywords Map: the text of a keyword and its TokenType
keywords ==
    <<<<<<"P", "R", "I", "N", "T">>, "PRINT">>,
      <<<<"L", "E", "T">>, "LET">>,
      <<<<"G", "O", "T", "O">>, "GOTO">>,
      <<<<"I", "F">>, "IF">>,
      <<<<"T", "H", "E", "N">>, "THEN">>,
      <<<<"E", "L", "S", "E">>, "ELSE">>,
      <<<<"F", "O", "R">>, "FOR">>,
      <<<<"T", "O">>, "TO">>,
      <<<<"S", "T", "E", "P">>, "STEP">>,
      <<<<"N", "E", "X", "T">>, "NEXT">>,
      <<<<"D", "A", "T", "A">>, "DATA">>,
      <<<<"R", "E", "A", "D">>, "READ">>,
      <<<<"R", "E", "S", "T", "O", "R", "E">>, "RESTORE">>,
      <<<<"D", "I", "M">>, "DIM">>,
      <<<<"E", "N", "D">>, "END">>,
      <<<<"R", "E", "M">>, "REM">>,
      <<<<"A", "N", "D">>, "AND">>,
      <<<<"O", "R">>, "OR">>,
      <<<<"N", "O", "T">>, "NOT">>>>

\* the scanning position of a Lexer: its fields position, line and column
Cursor(p, l, c) == [position |-> p, line |-> l, column |-> c]

isAtEnd(inp, lx) == lx.position >= Len(inp)

peek(inp, lx) == IF isAtEnd(inp, lx) THEN NUL ELSE inp[lx.position + 1]

peekNext(inp, lx) == IF lx.position + 1 >= Len(inp) THEN NUL ELSE inp[lx.position + 2]

advance(inp, lx) ==
    IF isAtEnd(inp, lx) THEN lx
    ELSE IF inp[lx.position + 1] = "\n"
         THEN Cursor(lx.position + 1, lx.line + 1, 1)
         ELSE Cursor(lx.position + 1, lx.line, lx.column + 1)

isDigit(char) == char \in {"0", "1", "2", "3", "4", "5", "6", "7", "8", "9"}

isAlpha(char) ==
    \/ \E i \in 1..Len(LowerCase) : LowerCase[i] = char
    \/ \E i \in 1..Len(UpperCase) : UpperCase[i] = char
    \/ char = "_"

isAlphaNumeric(char) == isAlpha(char) \/ isDigit(char)

RECURSIVE skipWhitespace(_, _)
skipWhitespace(inp, lx) ==
    IF ~isAtEnd(inp, lx) /\ peek(inp, lx) \in {" ", "\t", "\r"}
    THEN skipWhitespace(inp, advance(inp, lx))
    ELSE lx

\* what nextToken leaves: the cursor, the token (NoNode for null) and the
\* SyntaxError it threw (NoNode for none)
Scanned(lx, token) == [lx |-> lx, token |-> token, thrown |-> NoNode]

Unscanned(lx, message, start) ==
    [lx |-> lx, token |-> NoNode,
     thrown |-> [name |-> "SyntaxError", message |-> message, line |-> start.line,
                 column |-> start.column]]

makeToken(type, value, start) ==
    [type |-> type, value |-> value, line |-> start.line, column |-> start.column]

\* while (this.isDigit(this.peek())) this.advance()
RECURSIVE SkipDigits(_, _)
SkipDigits(inp, lx) ==
    IF isDigit(peek(inp, lx)) THEN SkipDigits(inp, advance(inp, lx)) ELSE lx

\* the decimal part of number, from the cursor after the integer digits
SkipFraction(inp, lx) ==
    IF peek(inp, lx) = "." /\ isDigit(peekNext(inp, lx))
    THEN SkipDigits(inp, advance(inp, lx))
    ELSE lx

NumberToken(inp, start, lx) ==
    Scanned(lx, makeToken("NUMBER", SubSeq(inp, start.position + 1, lx.position), start))

number(inp, start, lx) == NumberToken(inp, start, SkipFraction(inp, SkipDigits(inp, lx)))

\* the line and column adjustment string makes before it advances over a newline
CountNewline(inp, lx) ==
    IF peek(inp, lx) = "\n" THEN Cursor(lx.position, lx.line + 1, 0) ELSE lx

RECURSIVE string(_, _, _, _)
string(inp, start, lx, value) ==
    IF peek(inp, lx) # "\"" /\ ~isAtEnd(inp, lx)
    THEN string(inp, start, advance(inp, CountNewline(inp, lx)), value \o <<peek(inp, lx)>>)
    ELSE IF isAtEnd(inp, lx)
         THEN Unscanned(lx, <<"Unterminated string">>, start)
         ELSE Scanned(advance(inp, lx), makeToken("STRING", value, start))

\* while (this.isAlphaNumeric(this.peek())) this.advance()
RECURSIVE SkipAlphaNumeric(_, _)
SkipAlphaNumeric(inp, lx) ==
    IF isAlphaNumeric(peek(inp, lx)) THEN SkipAlphaNumeric(inp, advance(inp, lx)) ELSE lx

SkipDollar(inp, lx) == IF peek(inp, lx) = "$" THEN advance(inp, lx) ELSE lx

\* keywords.get(value) || TokenType.IDENTIFIER
KeywordType(value) ==
    IF \E k \in 1..Len(keywords) : keywords[k][1] = value
    THEN keywords[CHOOSE k \in 1..Len(keywords) : keywords[k][1] = value][2]
    ELSE "IDENTIFIER"

IdentifierToken(inp, start, lx) ==
    Scanned(lx, makeToken(KeywordType(toUpperCase(SubSeq(inp, start.position + 1,
                                                         lx.position))),
                          toUpperCase(SubSeq(inp, start.position + 1, lx.position)),
                          start))

identifier(inp, start, lx) ==
    IdentifierToken(inp, start, SkipDollar(inp, SkipAlphaNumeric(inp, lx)))

\* a token of one character, or of two when the second is `second`
OneOrTwo(inp, lx, start, second, two, one, char) ==
    IF peek(inp, lx) = second
    THEN Scanned(advance(inp, lx), makeToken(two, <<char, second>>, start))
    ELSE Scanned(lx, makeToken(one, <<char>>, start))

Unexpected(lx, char, start) ==
    Unscanned(lx, <<"Unexpected character: ", char>>, start)

\* the switch of nextToken
Punctuation(inp, start, char, lx) ==
    CASE char = "+" -> Scanned(lx, makeToken("PLUS", <<char>>, start))
      [] char = "-" -> Scanned(lx, makeToken("MINUS", <<char>>, start))
      [] char = "*" -> OneOrTwo(inp, lx, start, "*", "POWER", "MULTIPLY", char)
      [] char = "/" -> Scanned(lx, makeToken("DIVIDE", <<char>>, start))
      [] char = "^" -> Scanned(lx, makeToken("POWER", <<char>>, start))
      [] char = "=" -> Scanned(lx, makeToken("EQUAL", <<char>>, start))
      [] char = "<" ->
            IF peek(inp, lx) = ">"
            THEN Scanned(advance(inp, lx), makeToken("NOT_EQUAL", <<"<", ">">>, start))
            ELSE OneOrTwo(inp, lx, start, "=", "LESS_EQUAL", "LESS", char)
      [] char = ">" -> OneOrTwo(inp, lx, start, "=", "GREATER_EQUAL", "GREATER", char)
      [] char = "!" ->
            IF peek(inp, lx) = "="
            THEN Scanned(advance(inp, lx), makeToken("NOT_EQUAL", <<"!", "=">>, start))
            ELSE Unexpected(lx, char, start)
      [] char = "," -> Scanned(lx, makeToken("COMMA", <<char>>, start))
      [] char = ";" -> Scanned(lx, makeToken("SEMICOLON", <<char>>, start))
      [] char = ":" -> Scanned(lx, makeToken("COLON", <<char>>, start))
      [] char = "(" -> Scanned(lx, makeToken("LEFT_PAREN", <<char>>, start))
      [] char = ")" -> Scanned(lx, makeToken("RIGHT_PAREN", <<char>>, start))
      [] char = "[" -> Scanned(lx, makeToken("LEFT_BRACKET", <<char>>, start))
      [] char = "]" -> Scanned(lx, makeToken("RIGHT_BRACKET", <<char>>, start))
      [] OTHER -> Unexpected(lx, char, start)

\* nextToken from the first character of the token on: start is the cursor
\* before it, lx the cursor after it
ScanToken(inp, start, char, lx) ==
    IF char = "\n" THEN Scanned(lx, makeToken("NEWLINE", <<"\n">>, start))
    ELSE IF isDigit(char) THEN number(inp, start, lx)
    ELSE IF char = "\"" THEN string(inp, start, lx, <<>>)
    ELSE IF isAlpha(char) THEN identifier(inp, start, lx)
    ELSE Punctuation(inp, start, char, lx)

AfterWhitespace(inp, start) ==
    IF isAtEnd(inp, start) THEN Scanned(start, NoNode)
    ELSE ScanToken(inp, start, peek(inp, start), advance(inp, start))

nextToken(inp, lx) == AfterWhitespace(inp, skipWhitespace(inp, lx))

\* the inputs given to the Lexer: every text of at most MaxInput characters
LexerChars == {"a", "1", "\"", "\n", " ", "*"}

RECURSIVE Texts(_, _)
Texts(chars, n) ==
    IF n = 0 THEN {<<>>}
    ELSE Texts(chars, n - 1)
           \cup {Append(t, c) : t \in {u \in Texts(chars, n - 1) : Len(u) = n - 1}, c \in chars}

LexerInputs == Texts(LexerChars, MaxInput) \cup {<<"!">>, <<"a", "!", "=", "1">>}

\* no Lexer exists
LexerIdle ==
    /\ input = <<>>
    /\ position = 0
    /\ line = 1
    /\ column = 1
    /\ tokens = <<>>
    /\ lexing = "idle"
    /\ syntaxError = NoNode

\* new Lexer(input), and the call of tokenize up to its loop
LexerInit ==
    /\ input \in LexerInputs
    /\ position = 0
    /\ line = 1
    /\ column = 1
    /\ tokens = <<>>
    /\ lexing = "loop"
    /\ syntaxError = NoNode

\* the fields and the token list after one nextToken
Tokenized(r) ==
    /\ position' = r.lx.position
    /\ line' = r.lx.line
    /\ column' = r.lx.column
    /\ tokens' = IF r.token = NoNode THEN tokens ELSE Append(tokens, r.token)
    /\ syntaxError' = r.thrown
    /\ lexing' = IF r.thrown = NoNode THEN "loop" ELSE "thrown"

\* one pass of the loop of tokenize
NextToken ==
    /\ lexing = "loop"
    /\ position < Len(input)
    /\ Tokenized(nextToken(input, Cursor(position, line, column)))
    /\ UNCHANGED <<input, interpreterVars, interactiveVars>>

\* the loop of tokenize ends: the EOF token is pushed and the list returned
EndOfInput ==
    /\ lexing = "loop"
    /\ position >= Len(input)
    /\ tokens' = Append(tokens, [type |-> "EOF", value |-> <<>>, line |-> line,
                                 column |-> column])
    /\ lexing' = "returned"
    /\ UNCHANGED <<input, position, line, column, syntaxError, interpreterVars,
                   interactiveVars>>

LexerNext == NextToken \/ EndOfInput

-----------------------------------------------------------------------------
(* The interactive mode (main.ts, runInteractive) *)

\* the UTF-16 order of the characters of the stored lines
CodeUnits == <<" ">> \o Digits \o UpperCase \o LowerCase

CodeUnit(c) == CHOOSE i \in 1..Len(CodeUnits) : CodeUnits[i] = c

\* a < b as Array.prototype.sort compares two strings by default
RECURSIVE SortsBefore(_, _)
SortsBefore(a, b) ==
    IF b = <<>> THEN FALSE
    ELSE IF a = <<>> THEN TRUE
    ELSE IF Head(a) # Head(b) THEN CodeUnit(Head(a)) < CodeUnit(Head(b))
    ELSE SortsBefore(Tail(a), Tail(b))

\* the place of a line in a sorted list: after every line that does not sort after it
RECURSIVE InsertLine(_, _)
InsertLine(sorted, l) ==
    IF sorted = <<>> THEN <<l>>
    ELSE IF SortsBefore(l, Head(sorted)) THEN <<l>> \o sorted
    ELSE <<Head(sorted)>> \o InsertLine(Tail(sorted), l)

\* program.sort(): in place, stable
RECURSIVE SortLines(_)
SortLines(lines) ==
    IF lines = <<>> THEN <<>>
    ELSE InsertLine(SortLines(SubSeq(lines, 1, Len(lines) - 1)), lines[Len(lines)])

\* String.prototype.trim
RECURSIVE TrimEnd(_)
TrimEnd(s) ==
    IF s # <<>> /\ s[Len(s)] \in WhiteSpace THEN TrimEnd(SubSeq(s, 1, Len(s) - 1)) ELSE s

trim(s) == TrimEnd(SkipSpace(s))

\* input.match(/^\s*(\d+)\s*(.*)/): whether it matches, and its two groups
Matches(text) == DigitRun(SkipSpace(text)) > 0

MatchedNumber(text) == SubSeq(SkipSpace(text), 1, DigitRun(SkipSpace(text)))

MatchedCode(text) ==
    SkipSpace(SubSeq(SkipSpace(text), DigitRun(SkipSpace(text)) + 1,
                     Len(SkipSpace(text))))

\* parseInt: the leading digits of the text, -1 standing for NaN
parseInt(text) ==
    IF DigitRun(SkipSpace(text)) = 0 THEN -1
    ELSE DigitsValue(SubSeq(SkipSpace(text), 1, DigitRun(SkipSpace(text))), 0)

\* line.split(' ')[0]
RECURSIVE FirstPiece(_)
FirstPiece(text) ==
    IF text = <<>> \/ Head(text) = " " THEN <<>>
    ELSE <<Head(text)>> \o FirstPiece(Tail(text))

startsWith(text, prefix) ==
    Len(prefix) <= Len(text) /\ SubSeq(text, 1, Len(prefix)) = prefix

\* findIndex from 1, 0 when no line is found
FirstOf(hits) == IF hits = {} THEN 0 ELSE CHOOSE i \in hits : \A j \in hits : i <= j

\* the findIndex of the delete branch
DeleteIndex(lines, lineNumber) ==
    FirstOf({i \in 1..Len(lines) : startsWith(lines[i], NatToString(lineNumber))})

\* the findIndex of the add or replace branch
ReplaceIndex(lines, lineNumber) ==
    FirstOf({i \in 1..Len(lines) : parseInt(FirstPiece(lines[i])) = lineNumber})

\* program.splice(index, 1)
Splice(lines, index) ==
    IF index = 0 THEN lines
    ELSE SubSeq(lines, 1, index - 1) \o SubSeq(lines, index + 1, Len(lines))

\* program[index] = lineText, or program.push(lineText)
Store(lines, index, lineText) ==
    IF index = 0 THEN Append(lines, lineText) ELSE [lines EXCEPT ![index] = lineText]

\* the program mode branch for line number lineNumber and code code
EditProgram(lines, lineNumber, code) ==
    IF code = <<>> THEN Splice(lines, DeleteIndex(lines, lineNumber))
    ELSE Store(lines, ReplaceIndex(lines, lineNumber),
               NatToString(lineNumber) \o <<" ">> \o code)

\* program.join('\n')
RECURSIVE Join(_)
Join(lines) ==
    IF lines = <<>> THEN <<>>
    ELSE IF Len(lines) = 1 THEN lines[1]
    ELSE lines[1] \o <<"\n">> \o Join(Tail(lines))

\* the lines readLine returns in the model (readLine trims what it read)
InteractiveInputs ==
    {<<"r", "u", "n">>, <<"R", "U", "N">>, <<"l", "i", "s", "t">>, <<"n", "e", "w">>,
     <<"h", "e", "l", "p">>, <<"e", "x", "i", "t">>, <<"q", "u", "i", "t">>,
     <<"1">>, <<"2">>, <<"1", "0">>, <<"0", "1", "0">>,
     <<"1", "0", " ", "A">>, <<"1", "0", " ", " ", "B">>, <<"1", " ", "A">>, <<"2", "B">>,
     <<"A">>, <<>>}

\* runInteractive before its loop (no Lexer and no Interpreter are modelled here)
InteractiveIdle ==
    /\ program = <<>>
    /\ inProgramMode = FALSE
    /\ console = <<>>
    /\ submitted = <<>>
    /\ readLine = <<>>
    /\ entered = 0
    /\ session = "idle"

InteractiveInit ==
    /\ program = <<>>
    /\ inProgramMode = FALSE
    /\ console = <<>>
    /\ submitted = <<>>
    /\ readLine = <<>>
    /\ entered = 0
    /\ session = "loop"

\* readLine returned text
Read(text) ==
    /\ session = "loop"
    /\ entered < MaxEntries
    /\ text \in InteractiveInputs
    /\ readLine' = text
    /\ entered' = entered + 1

Exit ==
    \E text \in InteractiveInputs :
        /\ Read(text)
        /\ toLowerCase(text) \in {<<"e", "x", "i", "t">>, <<"q", "u", "i", "t">>}
        /\ session' = "ended"
        /\ console' = <<<<"Goodbye!">>>>
        /\ submitted' = <<>>
        /\ UNCHANGED <<program, inProgramMode, interpreterVars, lexerVars>>

Run ==
    \E text \in InteractiveInputs :
        /\ Read(text)
        /\ toLowerCase(text) = <<"r", "u", "n">>
        /\ console' = IF program = <<>> THEN <<<<"No program to run.">>>> ELSE <<>>
        /\ submitted' = IF program = <<>> THEN <<>> ELSE <<Join(program)>>
        /\ UNCHANGED <<program, inProgramMode, session, interpreterVars, lexerVars>>

List ==
    \E text \in InteractiveInputs :
        /\ Read(text)
        /\ toLowerCase(text) = <<"l", "i", "s", "t">>
        /\ program' = SortLines(program)
        /\ console' = IF program = <<>> THEN <<<<"No program loaded.">>>> ELSE program'
        /\ submitted' = <<>>
        /\ UNCHANGED <<inProgramMode, session, interpreterVars, lexerVars>>

New ==
    \E text \in InteractiveInputs :
        /\ Read(text)
        /\ toLowerCase(text) = <<"n", "e", "w">>
        /\ program' = <<>>
        /\ inProgramMode' = FALSE
        /\ console' = <<<<"Program cleared.">>>>
        /\ submitted' = <<>>
        /\ UNCHANGED <<session, interpreterVars, lexerVars>>

Help ==
    \E text \in InteractiveInputs :
        /\ Read(text)
        /\ toLowerCase(text) = <<"h", "e", "l", "p">>
        /\ console' = <<<<"Available commands:">>>>
        /\ submitted' = <<>>
        /\ UNCHANGED <<program, inProgramMode, session, interpreterVars, lexerVars>>

Commands ==
    {<<"e", "x", "i", "t">>, <<"q", "u", "i", "t">>, <<"r", "u", "n">>,
     <<"l", "i", "s", "t">>, <<"n", "e", "w">>, <<"h", "e", "l", "p">>}

\* a line that starts with a line number: delete, or add or replace
EditLine ==
    \E text \in InteractiveInputs :
        /\ Read(text)
        /\ toLowerCase(text) \notin Commands
        /\ Matches(text)
        /\ program' = EditProgram(program, parseInt(MatchedNumber(text)),
                                  trim(MatchedCode(text)))
        /\ inProgramMode' = TRUE
        /\ console' = <<>>
        /\ submitted' = <<>>
        /\ UNCHANGED <<session, interpreterVars, lexerVars>>

\* immediate mode: the line is run as a program unless it is empty
Immediate ==
    \E text \in InteractiveInputs :
        /\ Read(text)
        /\ toLowerCase(text) \notin Commands
        /\ ~Matches(text)
        /\ console' = <<>>
        /\ submitted' = IF trim(text) # <<>> THEN <<text>> ELSE <<>>
        /\ UNCHANGED <<program, inProgramMode, session, interpreterVars, lexerVars>>

InteractiveNext == Exit \/ Run \/ List \/ New \/ Help \/ EditLine \/ Immediate

-----------------------------------------------------------------------------
(* The state machine: one Interpreter object and the calls made on it *)

Context ==
    [variables |-> variables, arrays |-> arrays, dataPointer |-> dataPointer,
     programCounter |-> programCounter, forLoops |-> forLoops, output |-> output,
     running |-> running, thrown |-> NoNode]

\* the catch clause of interpret: the entry pushed for the exception e
Diagnostic(e) ==
    IF e.name = "RuntimeError" THEN <<"Runtime Error: ">> \o e.message
    ELSE <<"Error: ">> \o e.message

\* a catch clause that returns the diagnostic alone
catchErrorLosingOutput(out, e) == <<Diagnostic(e)>>

catchError(out, e) == Append(out, Diagnostic(e))

\* the statement an IF hands the dispatch to (the statement itself when it
\* is no IF; NoNode when the IF runs no branch or its condition throws)
RECURSIVE Effective(_, _)

EffectiveBranch(ctx, stmt, condition) ==
    IF IsThrow(condition) THEN NoNode
    ELSE IF ~isTruthy(condition) /\ stmt.elseStatement = NoNode THEN NoNode
    ELSE Effective(ctx, IF isTruthy(condition) THEN stmt.thenStatement
                        ELSE stmt.elseStatement)

Effective(ctx, stmt) ==
    IF stmt.type # "IfStatement" THEN stmt
    ELSE EffectiveBranch(ctx, stmt, evaluateExpression(stmt.condition, ctx))

\* the loop variable a NEXT resolves to
NextVariable(ctx, stmt) ==
    IF stmt.variable # <<>> THEN stmt.variable ELSE getLastForVariable(ctx)

\* the Interpreter after construction
InterpreterIdle ==
    /\ source = <<>>
    /\ orderedStatements = <<>>
    /\ variables = <<>>
    /\ arrays = <<>>
    /\ dataValues = <<>>
    /\ dataPointer = 0
    /\ programCounter = 0
    /\ forLoops = <<>>
    /\ output = <<>>
    /\ running = FALSE
    /\ phase = "idle"
    /\ error = NoNode
    /\ trace = <<>>
    /\ runs = 0
    /\ history = <<>>
    /\ opened = {}
    /\ openOrder = <<>>

Init ==
    /\ suite \in Suites
    /\ InterpreterIdle
    /\ LexerIdle
    /\ InteractiveIdle

\* interpret(program), up to the run loop, for the program parsed from src
Interpret ==
    /\ phase \in {"idle", "returned"}
    /\ runs < MaxRuns
    /\ runs = 0 \/ Reused(suite)
    /\ \E src \in Programs(suite) :
          /\ source' = src
          /\ orderedStatements' = organizeStatements(parse(src))
    /\ dataValues' = collectDataStatements(orderedStatements')
    /\ dataPointer' = 0
    /\ programCounter' = 0
    /\ output' = <<>>
    /\ running' = TRUE
    /\ phase' = "loop"
    /\ error' = NoNode
    /\ trace' = <<>>
    /\ runs' = runs + 1
    /\ opened' = {}
    /\ UNCHANGED <<variables, arrays, forLoops, history, openOrder, suite>>
    /\ UNCHANGED <<lexerVars, interactiveVars>>

\* history: the loop a dispatched FOR opens, as a sequence of at most one variable
Opens(ctx, eff) ==
    IF eff.type = "ForStatement" /\ ctx.thrown = NoNode THEN <<eff.variable>> ELSE <<>>

\* history: the loop a dispatched NEXT closes, as a set of at most one variable
Closes(ctx, eff) ==
    IF /\ eff.type = "NextStatement"
       /\ ctx.thrown = NoNode
       /\ LoopIndex(ctx.forLoops, NextVariable(Context, eff)) = 0
    THEN {NextVariable(Context, eff)}
    ELSE {}

Track(opens, closes) ==
    /\ opened' = (opened \ closes) \cup {opens[i] : i \in DOMAIN opens}
    /\ openOrder' = SelectSeq(openOrder,
                              LAMBDA v : v \notin closes /\ \A i \in DOMAIN opens : v # opens[i])
                      \o opens

\* the context an executeStatement leaves, and the catch clause when it threw
Settle(ctx) ==
    /\ variables' = ctx.variables
    /\ arrays' = ctx.arrays
    /\ dataPointer' = ctx.dataPointer
    /\ programCounter' = ctx.programCounter
    /\ forLoops' = ctx.forLoops
    /\ running' = ctx.running
    /\ IF ctx.thrown # NoNode
       THEN /\ output' = catchError(ctx.output, ctx.thrown)
            /\ error' = ctx.thrown
            /\ phase' = "returned"
            /\ history' = Append(history, [source |-> source, output |-> output',
                                           error |-> error'])
       ELSE /\ output' = ctx.output
            /\ phase' = "increment"
            /\ UNCHANGED <<error, history>>

Executed(ctx, eff) ==
    /\ Settle(ctx)
    /\ Track(Opens(ctx, eff), Closes(ctx, eff))

\* one executeStatement of the run loop, and the catch clause when it throws
Dispatch ==
    /\ phase = "loop"
    /\ running
    /\ programCounter < Len(orderedStatements)
    /\ Len(trace) < MaxDispatch
    /\ Executed(executeStatement(Context, orderedStatements[programCounter + 1]),
                Effective(Context, orderedStatements[programCounter + 1]))
    /\ trace' = Append(trace, programCounter)
    /\ UNCHANGED <<source, orderedStatements, dataValues, runs, suite>>
    /\ UNCHANGED <<lexerVars, interactiveVars>>

\* this.context.programCounter++
Advance ==
    /\ phase = "increment"
    /\ programCounter' = programCounter + 1
    /\ phase' = "loop"
    /\ UNCHANGED <<source, orderedStatements, variables, arrays, dataValues, dataPointer,
                   forLoops, output, running, error, trace, runs, history, opened,
                   openOrder, suite>>
    /\ UNCHANGED <<lexerVars, interactiveVars>>

\* the loop condition fails: return this.output
Return ==
    /\ phase = "loop"
    /\ ~(running /\ programCounter < Len(orderedStatements))
    /\ phase' = "returned"
    /\ history' = Append(history, [source |-> source, output |-> output, error |-> error])
    /\ UNCHANGED <<source, orderedStatements, variables, arrays, dataValues, dataPointer,
                   programCounter, forLoops, output, running, error, trace, runs, opened,
                   openOrder, suite>>
    /\ UNCHANGED <<lexerVars, interactiveVars>>

Next == Interpret \/ Dispatch \/ Advance \/ Return

Spec == Init /\ [][Next]_vars

\* a Lexer on its own: no Interpreter and no interactive session
\* interpret is a sequential loop: a statement that can be dispatched is
\* dispatched, the program counter is incremented, and interpret returns
\* when the loop condition fails
FairSpec == Spec /\ WF_vars(Dispatch) /\ WF_vars(Advance) /\ WF_vars(Return)

\* a Lexer alone: no Interpreter runs and no session is open
LexerOnly == LexerInit /\ InterpreterIdle /\ suite = "none" /\ InteractiveIdle

LexerSpec == LexerOnly /\ [][LexerNext]_vars

\* an interactive session on its own, up to the calls of runSource
\* an interactive session alone, before any line is handed to runSource
InteractiveOnly == InteractiveInit /\ InterpreterIdle /\ suite = "none" /\ LexerIdle

InteractiveSpec == InteractiveOnly /\ [][InteractiveNext]_vars

-----------------------------------------------------------------------------
(* Vocabulary of the properties *)

Last(seq) == seq[Len(seq)]

\* <<0, 1, ..., n - 1>>
Upto(n) == [i \in 1..n |-> i - 1]

\* line a stands before line b in the statement table: numbered lines by
\* ascending number, equal numbers in source order, unnumbered lines last
Precedes(src, a, b) ==
    \/ src[a].num # Undefined /\ src[b].num = Undefined
    \/ /\ src[a].num # Undefined
       /\ src[b].num # Undefined
       /\ (src[a].num < src[b].num \/ (src[a].num = src[b].num /\ a < b))
    \/ src[a].num = Undefined /\ src[b].num = Undefined /\ a < b

\* the source position of the k-th statement of the table
TableOrder(src) ==
    [k \in 1..Len(src) |->
        CHOOSE a \in 1..Len(src) :
            Cardinality({b \in 1..Len(src) : Precedes(src, b, a)}) = k - 1]

\* the written statements in table order
WrittenTable(src) == [k \in 1..Len(src) |-> src[TableOrder(src)[k]]]

ControlFlowWords == {"GOTO", "IF", "FOR", "NEXT", "END"}

NoControlFlow(src) == \A i \in 1..Len(src) : src[i].kw \notin ControlFlowWords

\* this step is a Dispatch
Dispatching == phase = "loop" /\ trace' = Append(trace, programCounter)

CurrentStatement == orderedStatements[programCounter + 1]

CurrentWritten == WrittenTable(source)[programCounter + 1]

LastWritten == WrittenTable(source)[Last(trace) + 1]

-----------------------------------------------------------------------------
(* C1 *)

\* C1 (as claimed): when interpret returns for a program without GOTO, IF,
\* FOR, NEXT or END, every statement was dispatched exactly once, numbered
\* statements first by ascending line number (ties in source order), then
\* the unnumbered ones in source order.
C1_EveryStatementOnce ==
    (phase = "returned" /\ NoControlFlow(source)) =>
        /\ orderedStatements = [k \in 1..Len(source) |-> statement(WrittenTable(source)[k])]
        /\ trace = Upto(Len(source))

\* C1 (amended): for such a program the table is in the claimed order and
\* the dispatches are the table positions 0, 1, 2, ... each once, up to the
\* first statement that raises an error; they are all of the table when
\* interpret returns without an error.
C1_OrderUntilError ==
    (phase # "idle" /\ NoControlFlow(source)) =>
        /\ orderedStatements = [k \in 1..Len(source) |-> statement(WrittenTable(source)[k])]
        /\ trace = Upto(Len(trace))
        /\ Len(trace) <= Len(source)
        /\ (phase = "returned" /\ error = NoNode) => Len(trace) = Len(source)

\* a finished run of three statements: an unnumbered one written first and
\* two different statements sharing a line number
C1_Witness ==
    /\ phase = "returned"
    /\ error = NoNode
    /\ NoControlFlow(source)
    /\ Len(source) = 3
    /\ source[1].num = Undefined
    /\ source[2].num = 20
    /\ source[3].num = 20
    /\ source[2] # source[3]
    /\ trace = <<0, 1, 2>>
    /\ orderedStatements[3] = statement(source[1])

-----------------------------------------------------------------------------
(* C2 *)

\* C2 (as claimed): after a numbered `GOTO T` whose target differs from its
\* own line and is borne by some statement, the next statement dispatched
\* is the first statement of the table bearing line number T.
C2_GotoReachesTarget ==
    \A k \in 1..(Len(trace) - 1) :
        LET table == WrittenTable(source)
            w == table[trace[k] + 1]
            bearers == {i \in 1..Len(table) : table[i].num = w.target}
        IN (w.kw = "GOTO" /\ w.num # Undefined /\ w.target # w.num /\ bearers # {}) =>
              trace[k + 1] = (CHOOSE i \in bearers : \A j \in bearers : i <= j) - 1

-----------------------------------------------------------------------------
(* C3 *)

\* C3 (as claimed): a RESTORE written without an argument, numbered or not,
\* leaves the data pointer at zero, and a READ dispatched right after it
\* gives its first target the first value of the pool.
C3_RestoreResets ==
    /\ (phase = "increment" /\ LastWritten.kw = "RESTORE" /\ LastWritten.arg = Undefined) =>
          dataPointer = 0
    /\ (/\ phase = "increment"
        /\ Len(trace) >= 2
        /\ LastWritten.kw = "READ"
        /\ WrittenTable(source)[trace[Len(trace) - 1] + 1].kw = "RESTORE"
        /\ WrittenTable(source)[trace[Len(trace) - 1] + 1].arg = Undefined) =>
          variables[LastWritten.targets[1].name] = dataValues[1]

-----------------------------------------------------------------------------
(* C4 *)

IsPrefix(p, seq) == Len(p) <= Len(seq) /\ SubSeq(seq, 1, Len(p)) = p

\* C4 (as claimed): a PRINT of two expressions separated by a comma, with no
\* trailing separator, appends one entry in which a tab stands between the
\* two rendered texts.
C4_CommaGivesTab ==
    [][(/\ Dispatching
        /\ CurrentWritten.kw = "PRINT"
        /\ Len(CurrentWritten.items) = 2
        /\ CurrentWritten.seps = <<Comma>>
        /\ error' = NoNode) =>
          LET r1 == valueToString(evaluateExpression(CurrentWritten.items[1], Context))
              r2 == valueToString(evaluateExpression(CurrentWritten.items[2], Context))
          IN /\ Len(output') = Len(output) + 1
             /\ IsPrefix(output, output')
             /\ IsPrefix(r1 \o <<"\t">> \o r2, Last(output'))]_vars

-----------------------------------------------------------------------------
(* C5 *)

\* C5 (as claimed): two successive interpret calls with the same program
\* return the same output, and a call starts with no variable, array or
\* open loop left by an earlier call.
C5_RunsAreIndependent ==
    /\ \A i \in 1..(Len(history) - 1) :
          history[i].source = history[i + 1].source =>
              history[i].output = history[i + 1].output
    /\ (phase = "loop" /\ trace = <<>>) =>
          (variables = <<>> /\ arrays = <<>> /\ forLoops = <<>>)

-----------------------------------------------------------------------------
(* C6 *)

IsWhole(e) == e.type = "NumberLiteral" /\ e.value % Scale = 0

\* FOR V = s TO e [STEP k] / PRINT V; / NEXT V  with whole s <= e and k > 0
IsCountedLoop(src) ==
    /\ Len(src) = 3
    /\ WrittenTable(src) = src
    /\ src[1].kw = "FOR"
    /\ src[2] = At(src[2].num, WPrint(<<V(src[1].variable)>>, <<Semicolon>>))
    /\ src[3].kw = "NEXT"
    /\ src[3].variable = src[1].variable
    /\ IsWhole(src[1].start)
    /\ IsWhole(src[1].end)
    /\ src[1].start.value <= src[1].end.value
    /\ src[1].step = NoNode \/ (IsWhole(src[1].step) /\ src[1].step.value > 0)

StepOf(src) == IF src[1].step = NoNode THEN Num(1) ELSE src[1].step.value

\* floor((e - s) / k) + 1
Passes(src) == ((src[1].end.value - src[1].start.value) \div StepOf(src)) + 1

BodyDispatches == Cardinality({i \in 1..Len(trace) : trace[i] = 1})

-----------------------------------------------------------------------------
(* C7 *)

\* C7 (as claimed): a NEXT adds the step, stores the sum in the variable, and
\* keeps the loop (jumping back to its FOR) exactly when step > 0 and
\* current <= end, or step < 0 and current >= end; otherwise, a zero step
\* included, it removes the loop and falls through.
C7_NextContinuesExactlyWhen ==
    [][(Dispatching /\ CurrentStatement.type = "NextStatement" /\ error' = NoNode) =>
          LET v == NextVariable(Context, CurrentStatement)
              old == forLoops[LoopIndex(forLoops, v)]
              current == old.current + old.step
              continues == \/ old.step > 0 /\ current <= old.end
                           \/ old.step < 0 /\ current >= old.end
          IN /\ variables'[v] = NumberValue(current)
             /\ continues => /\ LoopIndex(forLoops', v) # 0
                             /\ programCounter' = old.startLine
             /\ ~continues => /\ LoopIndex(forLoops', v) = 0
                              /\ programCounter' = programCounter]_vars

-----------------------------------------------------------------------------
(* C8 *)

\* the statement is a PRINT whose first expression divides by a zero divisor
DividesByZero(stmt) ==
    /\ stmt.type = "PrintStatement"
    /\ Len(stmt.expressions) >= 1
    /\ stmt.expressions[1].type = "BinaryExpression"
    /\ stmt.expressions[1].operator = "/"
    /\ ~IsThrow(evaluateExpression(stmt.expressions[1].left, Context))
    /\ ~IsThrow(evaluateExpression(stmt.expressions[1].right, Context))
    /\ toNumber(evaluateExpression(stmt.expressions[1].right, Context)) = 0

\* C8: a statement that raises an error ends the run: the entries produced
\* before it stay as they are, one diagnostic entry is appended, nothing is
\* dispatched afterwards in that run; a division by a zero divisor raises
\* the error whatever the dividend.
C8_ErrorStopsRun ==
    [][/\ (phase = "loop" /\ error' # NoNode) =>
              /\ phase' = "returned"
              /\ output' = Append(output, Diagnostic(error'))
       /\ (error # NoNode /\ runs' = runs) =>
              (trace' = trace /\ output' = output /\ error' = error)
       /\ (Dispatching /\ DividesByZero(CurrentStatement)) =>
              error' = RuntimeError(<<"Division by zero">>)]_vars

\* a run of three statements stopped by 2/0 in the second one
C8_Witness ==
    /\ phase = "returned"
    /\ error = RuntimeError(<<"Division by zero">>)
    /\ Len(source) = 3
    /\ source[2] = At(20, WPrint(<<BinaryExpression(N(2), "/", N(0))>>, <<>>))
    /\ trace = <<0, 1>>
    /\ output = <<<<"A", "\n">>, <<"Runtime Error: ", "Division by zero">>>>

-----------------------------------------------------------------------------
(* C9 *)

\* C9 (as claimed): a NEXT naming a variable whose loop was not opened in
\* this run, or was closed since, raises a RuntimeError that ends the run
\* and keeps the output produced so far.
C9_NextWithoutLoopFails ==
    [][(/\ Dispatching
        /\ Effective(Context, CurrentStatement).type = "NextStatement"
        /\ Effective(Context, CurrentStatement).variable # <<>>
        /\ Effective(Context, CurrentStatement).variable \notin opened) =>
          /\ error' # NoNode
          /\ error'.name = "RuntimeError"
          /\ phase' = "returned"
          /\ output' = Append(output, Diagnostic(error'))]_vars

-----------------------------------------------------------------------------
(* C10 *)

\* C10 (as claimed): a NEXT without a variable advances the loop that the
\* most recent FOR opened among the loops still open, and no other loop.
C10_BareNextTakesNewestLoop ==
    [][(/\ Dispatching
        /\ Effective(Context, CurrentStatement).type = "NextStatement"
        /\ Effective(Context, CurrentStatement).variable = <<>>
        /\ openOrder # <<>>) =>
          LET v == Last(openOrder)
              old == forLoops[LoopIndex(forLoops, v)]
          IN /\ error' = NoNode
             /\ variables'[v] = NumberValue(old.current + old.step)
             /\ \A i \in 1..Len(forLoops) :
                   forLoops[i].variable # v =>
                       /\ LoopIndex(forLoops', forLoops[i].variable) # 0
                       /\ forLoops'[LoopIndex(forLoops', forLoops[i].variable)] = forLoops[i]]_vars

-----------------------------------------------------------------------------
(* C11 *)

\* the concatenation of the value lists of the DATA statements of a table
RECURSIVE Pool(_)
Pool(table) ==
    IF table = <<>> THEN <<>>
    ELSE (IF Head(table).kw = "DATA" THEN Head(table).values ELSE <<>>) \o Pool(Tail(table))

\* the number of targets of the READ statements among the first k dispatches
RECURSIVE TargetsRead(_)
TargetsRead(k) ==
    IF k = 0 THEN 0
    ELSE TargetsRead(k - 1)
           + (IF orderedStatements[trace[k] + 1].type = "ReadStatement"
              THEN Len(orderedStatements[trace[k] + 1].variables) ELSE 0)

\* no RESTORE was dispatched in this run (and no IF, which could hide one)
NoRestoreDispatched ==
    \A k \in 1..Len(trace) :
        orderedStatements[trace[k] + 1].type \notin {"RestoreStatement", "IfStatement"}

\* the i-th target of the READ just dispatched holds the pool value at its
\* overall position, unless a later target of the same READ has its name
LastReadAssigned ==
    \A i \in 1..Len(LastWritten.targets) :
        (/\ LastWritten.targets[i].indices = <<>>
         /\ \A j \in (i + 1)..Len(LastWritten.targets) :
               LastWritten.targets[j].name # LastWritten.targets[i].name) =>
            /\ LastWritten.targets[i].name \in DOMAIN variables
            /\ variables[LastWritten.targets[i].name].value
                  = dataValues[dataPointer - Len(LastWritten.targets) + i].value
            /\ variables[LastWritten.targets[i].name].type
                  = dataValues[dataPointer - Len(LastWritten.targets) + i].type

\* C11: the data pool is the concatenation, in table order, of the value
\* lists of all DATA statements, wherever the READs stand; while no RESTORE
\* has been dispatched the k-th READ target overall receives the k-th pool
\* value.
C11_ReadTakesPoolInOrder ==
    (phase # "idle" /\ NoRestoreDispatched) =>
        /\ dataValues = Pool(WrittenTable(source))
        /\ error = NoNode => dataPointer = TargetsRead(Len(trace))
        /\ (phase = "increment" /\ LastWritten.kw = "READ") => LastReadAssigned

\* READ A,B stands in the source before the DATA statements and is
\* dispatched after READ X: X takes the first value, A and B the next two,
\* the last two from an unnumbered DATA at the end of the table
C11_Witness ==
    /\ phase = "returned"
    /\ error = NoNode
    /\ Len(source) = 5
    /\ source[1] = At(30, WRead(<<V(A), V(B)>>))
    /\ source[3] = WData(<<DataString(B), DataNumber(3)>>)
    /\ variables[X] = NumberValue(Num(1))
    /\ variables[A] = StringValue(B)
    /\ variables[B] = NumberValue(Num(3))
    /\ dataPointer = 3

-----------------------------------------------------------------------------
(* C12 *)

-----------------------------------------------------------------------------
(* C13 *)

\* the number of values of the DATA statements that stand in the table
\* before the first DATA statement whose line number is >= n
RECURSIVE ValuesBefore(_, _)
ValuesBefore(table, n) ==
    IF table = <<>> THEN 0
    ELSE IF Head(table).kw = "DATA" /\ Head(table).num # Undefined /\ Head(table).num >= n
         THEN 0
         ELSE (IF Head(table).kw = "DATA" THEN Len(Head(table).values) ELSE 0)
                + ValuesBefore(Tail(table), n)

-----------------------------------------------------------------------------
(* C14 *)

\* C14 (as claimed): a GOTO whose target line number is carried by no
\* statement of the table raises a RuntimeError, which ends the run with a
\* diagnostic entry.
C14_GotoMissingLineFails ==
    [][(/\ Dispatching
        /\ CurrentWritten.kw = "GOTO"
        /\ \A i \in 1..Len(source) : source[i].num # CurrentWritten.target) =>
          /\ error' # NoNode
          /\ error'.name = "RuntimeError"
          /\ phase' = "returned"
          /\ output' = Append(output, Diagnostic(error'))]_vars

-----------------------------------------------------------------------------
(* C15 *)

\* C15: the dispatch of an END, at top level or as the branch of an IF,
\* clears the running flag and adds no entry; once the flag is cleared
\* nothing more is dispatched in that run, and the run returns the output
\* as it stood.
C15_EndHaltsRun ==
    [][/\ (Dispatching /\ Effective(Context, CurrentStatement).type = "EndStatement") =>
              /\ ~running'
              /\ output' = output
              /\ error' = NoNode
       /\ (phase # "idle" /\ ~running /\ runs' = runs) =>
              /\ trace' = trace
              /\ output' = output
              /\ error' = error
       /\ (phase = "loop" /\ ~running) =>
              /\ phase' = "returned"
              /\ Last(history').output = output]_vars

\* END as the branch of an IF between two PRINTs: the second PRINT is not reached
C15_Witness ==
    /\ phase = "returned"
    /\ ~running
    /\ error = NoNode
    /\ Len(source) = 3
    /\ source[2] = At(20, WIf(N(1), WEnd, NoNode))
    /\ trace = <<0, 1>>
    /\ output = <<<<"A", "\n">>>>

-----------------------------------------------------------------------------
(* C16 *)

\* C16: within a run the output only grows at its end: a dispatch that
\* completes appends exactly one entry when the statement executed is a
\* PRINT and none otherwise, and no step changes or removes an entry
\* already present (a dispatch that raises an error completes no statement:
\* the one entry then added is the diagnostic of the run).
C16_OutputAppendOnly ==
    [][/\ runs' = runs => IsPrefix(output, output')
       /\ (Dispatching /\ error' = NoNode) =>
              IF Effective(Context, CurrentStatement).type = "PrintStatement"
              THEN Len(output') = Len(output) + 1
              ELSE output' = output
       /\ (Dispatching /\ error' # NoNode) => Len(output') = Len(output) + 1
       /\ ~Dispatching => (output' = output \/ runs' # runs)]_vars

\* PRINT, REM, PRINT: two entries, none from the REM
C16_Witness ==
    /\ phase = "returned"
    /\ error = NoNode
    /\ Len(source) = 3
    /\ source[1].kw = "PRINT"
    /\ source[2].kw = "REM"
    /\ source[3].kw = "PRINT"
    /\ trace = <<0, 1, 2>>
    /\ output = <<<<"A", "\n">>, <<"B", "\n">>>>

-----------------------------------------------------------------------------
(* C17 *)

\* the PRINT is written with a separator behind its last expression
HasTrailing(w) == w.items # <<>> /\ Len(w.seps) = Len(w.items)

\* C17: the entry a PRINT appends ends with a newline when the statement is
\* written without a trailing separator, and has no trailing newline when
\* the statement ends with a semicolon.
C17_NewlineUnlessSemicolon ==
    [][(Dispatching /\ CurrentWritten.kw = "PRINT" /\ error' = NoNode) =>
          /\ Len(output') = Len(output) + 1
          /\ ~HasTrailing(CurrentWritten) =>
                (Last(output') # <<>> /\ Last(Last(output')) = "\n")
          /\ (HasTrailing(CurrentWritten) /\ Last(CurrentWritten.seps) = Semicolon) =>
                (Last(output') = <<>> \/ Last(Last(output')) # "\n")]_vars

\* PRINT "A"; then PRINT "B": the first entry has no newline, the second has one
C17_Witness ==
    /\ phase = "returned"
    /\ error = NoNode
    /\ source = <<At(10, WPrint(<<S(A)>>, <<Semicolon>>)), At(20, WPrint(<<S(B)>>, <<>>))>>
    /\ output = <<<<"A">>, <<"B", "\n">>>>

-----------------------------------------------------------------------------
(* C18 *)

\* the declared bounds are whole numbers N >= 0
WholeBounds(dimensions) ==
    \A k \in 1..Len(dimensions) : IsWhole(dimensions[k]) /\ dimensions[k].value >= 0

\* the index tuples within the declared bounds
Tuples(dimensions) ==
    {t \in [1..Len(dimensions) -> 0..3] :
        \A k \in 1..Len(dimensions) : t[k] <= ToInt(dimensions[k].value)}

\* the index tuple names an allocated position of the array
RECURSIVE Allocated(_, _)
Allocated(array, t) ==
    IF t = <<>> THEN ~IsArray(array)
    ELSE /\ IsArray(array)
         /\ Head(t) \in DOMAIN array.items
         /\ Head(t) < array.length
         /\ Allocated(array.items[Head(t)], Tail(t))

\* C18: after DIM A(N), or DIM A(N1, N2, ...), with bounds >= 0 every index
\* tuple within the declared bounds, the bounds themselves included, is an
\* allocated position of A and reads as numeric zero.
C18_DimAllocatesZeros ==
    [][(Dispatching /\ CurrentWritten.kw = "DIM" /\ error' = NoNode) =>
          \A d \in 1..Len(CurrentWritten.decls) :
              WholeBounds(CurrentWritten.decls[d].dimensions) =>
                  /\ CurrentWritten.decls[d].name \in DOMAIN arrays'
                  /\ \A t \in Tuples(CurrentWritten.decls[d].dimensions) :
                        /\ Allocated(arrays'[CurrentWritten.decls[d].name].value, t)
                        /\ getArrayElement(arrays'[CurrentWritten.decls[d].name].value, t)
                              = Zero]_vars

\* DIM A(1, 2) was dispatched and nothing written: position (1, 2) reads zero
C18_Witness ==
    /\ phase = "increment"
    /\ trace = <<0>>
    /\ source[1] = At(10, WDim(<<[name |-> A, dimensions |-> <<N(1), N(2)>>]>>))
    /\ Allocated(arrays[A].value, <<1, 2>>)
    /\ getArrayElement(arrays[A].value, <<1, 2>>) = Zero
    /\ getArrayElement(arrays[A].value, <<0, 0>>) = Zero

-----------------------------------------------------------------------------
(* C19 *)

\* the LET about to be dispatched assigns to an element of a declared array
AssignsElement ==
    /\ CurrentWritten.kw = "LET"
    /\ CurrentWritten.target.indices # <<>>
    /\ CurrentWritten.target.name \in DOMAIN arrays

\* the index tuple of the assignment about to be dispatched
TargetIndex == evaluateIndices(CurrentWritten.target.indices, Context).list

\* index tuples of the length of t, inside and outside any declared bounds
Neighbours(t) == [1..Len(t) -> -1..4]

\* C19: an assignment to an in-range array element makes a read of that
\* element return the assigned value, and leaves every other element of the
\* array, every other array and every scalar variable as they were; a
\* statement that is no LET, READ or DIM changes no array at all.
C19_ElementWriteFrame ==
    [][/\ (/\ Dispatching
           /\ AssignsElement
           /\ error' = NoNode
           /\ Allocated(arrays[CurrentWritten.target.name].value, TargetIndex)) =>
              /\ getArrayElement(arrays'[CurrentWritten.target.name].value, TargetIndex)
                    = evaluateExpression(CurrentWritten.expr, Context)
              /\ \A u \in Neighbours(TargetIndex) :
                    u # TargetIndex =>
                        getArrayElement(arrays'[CurrentWritten.target.name].value, u)
                            = getArrayElement(arrays[CurrentWritten.target.name].value, u)
              /\ DOMAIN arrays' = DOMAIN arrays
              /\ \A other \in DOMAIN arrays :
                    other # CurrentWritten.target.name => arrays'[other] = arrays[other]
              /\ variables' = variables
       /\ (Dispatching /\ CurrentWritten.kw \notin {"LET", "READ", "DIM", "IF"}) =>
              arrays' = arrays
       /\ (~Dispatching /\ runs' = runs) => arrays' = arrays]_vars

\* DIM A(2), B(1) / B(0) = 9 / X = 4 / A(1) = 5 / PRINT A(1)
C19_Witness ==
    /\ phase = "returned"
    /\ error = NoNode
    /\ Len(source) = 5
    /\ source[4] = At(40, WLet(Variable(A, <<N(1)>>), N(5)))
    /\ source[5] = At(50, WPrint(<<Variable(A, <<N(1)>>)>>, <<>>))
    /\ Allocated(arrays[A].value, <<2>>)
    /\ output = <<<<"5", "\n">>>>
    /\ getArrayElement(arrays[A].value, <<0>>) = Zero
    /\ getArrayElement(arrays[A].value, <<2>>) = Zero
    /\ getArrayElement(arrays[B].value, <<0>>) = NumberValue(Num(9))
    /\ variables[X] = NumberValue(Num(4))

-----------------------------------------------------------------------------
(* C20 *)

\* the index tuple has the rank of the array and lies outside its extent
BeyondExtent(array, t) ==
    /\ Allocated(array, [k \in 1..Len(t) |-> 0])
    /\ ~Allocated(array, t)

\* C20 (as claimed): a write to an array index greater than the declared
\* bound, or negative, raises no error, leaves the array unchanged, and a
\* read of the same index yields numeric zero afterwards.
C20_WriteBeyondExtentDropped ==
    [][(/\ Dispatching
        /\ AssignsElement
        /\ BeyondExtent(arrays[CurrentWritten.target.name].value, TargetIndex)) =>
          /\ error' = NoNode
          /\ arrays' = arrays
          /\ getArrayElement(arrays'[CurrentWritten.target.name].value, TargetIndex) = Zero]_vars

-----------------------------------------------------------------------------
(* C21 *)

\* the PRINT about to be dispatched prints one array element and nothing else
ReadsElement ==
    /\ CurrentWritten.kw = "PRINT"
    /\ Len(CurrentWritten.items) = 1
    /\ CurrentWritten.seps = <<>>
    /\ CurrentWritten.items[1].type = "Variable"
    /\ CurrentWritten.items[1].indices # <<>>

\* the index tuple of that read
ReadIndex == evaluateIndices(CurrentWritten.items[1].indices, Context).list

\* no assignment dispatched so far on this Interpreter names element t of the array
NeverWritten(name, t) ==
    /\ runs = 1
    /\ \A k \in 1..Len(trace) :
          (/\ WrittenTable(source)[trace[k] + 1].kw = "LET"
           /\ WrittenTable(source)[trace[k] + 1].target.name = name
           /\ WrittenTable(source)[trace[k] + 1].target.indices # <<>>) =>
              evaluateIndices(WrittenTable(source)[trace[k] + 1].target.indices,
                              Context).list # t

\* the array names a statement declares (none for a statement that is no DIM)
DeclaredBy(w) ==
    IF w.kw = "DIM" THEN {w.decls[d].name : d \in 1..Len(w.decls)} ELSE {}

-----------------------------------------------------------------------------
(* C22 *)

\* the value of the condition of the IF about to be dispatched
ConditionValue == evaluateExpression(CurrentStatement.condition, Context)

\* a non-zero number or a non-empty string
NonZeroOrNonEmpty(v) ==
    \/ v.type = "number" /\ v.value # 0
    \/ v.type = "string" /\ v.value # <<>>

\* C22: an IF whose condition evaluates dispatches its then-branch exactly
\* when the value is a non-zero number or a non-empty string, its
\* else-branch exactly when the value is not so and an else-branch exists,
\* and otherwise changes nothing: the run goes on to the increment of the
\* program counter.
C22_IfDispatchesBranch ==
    [][(/\ Dispatching
        /\ CurrentStatement.type = "IfStatement"
        /\ ~IsThrow(ConditionValue)) =>
           IF NonZeroOrNonEmpty(ConditionValue)
           THEN Settle(executeStatement(Context, CurrentStatement.thenStatement))
           ELSE IF CurrentStatement.elseStatement # NoNode
                THEN Settle(executeStatement(Context, CurrentStatement.elseStatement))
                ELSE /\ UNCHANGED <<variables, arrays, dataPointer, programCounter,
                                    forLoops, output, running, error>>
                     /\ phase' = "increment"]_vars

\* 10 X = 4 / 20 IF "A" THEN X = 3 ELSE PRINT "B" / 30 PRINT X / 40 PRINT "B";
\* the non-empty string took the then-branch and the else-branch did not run
C22_Witness ==
    /\ phase = "returned"
    /\ suite = "branch"
    /\ Len(source) = 4
    /\ source[1].expr = N(4)
    /\ source[2].cond = S(A)
    /\ source[2].thenW = WLet(V(X), N(3))
    /\ source[2].elseW = WPrint(<<S(B)>>, <<>>)
    /\ output = <<<<"3", "\n">>, <<"B">>>>

-----------------------------------------------------------------------------
(* C23 *)

\* C23 (as claimed): in every state of a run, the state between a GOTO or
\* NEXT dispatch and the increment of the run loop and the runs of an
\* Interpreter that already executed another program included, the program
\* counter is an index 0..len-1 of the statement table or exactly len.
C23_ProgramCounterInTable ==
    phase \in {"loop", "increment", "returned"} =>
        programCounter \in 0..Len(orderedStatements)

-----------------------------------------------------------------------------
(* C24 *)

Min(a, b) == IF a <= b THEN a ELSE b

\* the statement a dispatch carries out: the statement itself, or the
\* branch an IF takes (NoNode when the IF takes none)
Carried == Effective(Context, CurrentStatement)

\* the position of the first target of a READ that cannot be assigned (an
\* element of an array that is not declared), or one past the last target
FirstUnassignable(targets) ==
    LET bad == {i \in 1..Len(targets) :
                   targets[i].indices # <<>> /\ targets[i].name \notin DOMAIN arrays}
    IN IF bad = {} THEN Len(targets) + 1 ELSE CHOOSE i \in bad : \A j \in bad : i <= j

\* the number of targets the READ about to be dispatched assigns: it stops
\* at the end of the pool and at the first target that cannot be assigned
TargetsAssigned(targets) ==
    Min(Min(Len(targets), Len(dataValues) - dataPointer), FirstUnassignable(targets) - 1)

\* the READ just dispatched failed in the assignment of a value it had taken
FailedInAssignment == error' # NoNode /\ error' # RuntimeError(<<"Out of DATA">>)

\* C24 (as claimed): in every state 0 <= data pointer <= pool length; a
\* READ increases the pointer by exactly one per target assigned, RESTORE
\* is the only statement that can decrease it, and no other statement kind
\* changes it.
C24_PointerMovesPerTarget ==
    [][/\ dataPointer' \in 0..Len(dataValues')
       /\ Dispatching =>
             CASE Carried.type = "ReadStatement" ->
                      dataPointer' = dataPointer + TargetsAssigned(Carried.variables)
               [] Carried.type = "RestoreStatement" -> TRUE
               [] OTHER -> dataPointer' = dataPointer
       /\ ~Dispatching => (dataPointer' = dataPointer \/ (runs' = runs + 1 /\ dataPointer' = 0))]_vars

\* C24 (amended): the same, but a READ increases the pointer by one per
\* value it takes from the pool: one per target assigned, and one more when
\* the READ fails while assigning the value it has just taken.
C24_PointerMovesPerValueTaken ==
    [][/\ dataPointer' \in 0..Len(dataValues')
       /\ Dispatching =>
             CASE Carried.type = "ReadStatement" ->
                      dataPointer' = dataPointer + TargetsAssigned(Carried.variables)
                                       + (IF FailedInAssignment THEN 1 ELSE 0)
               [] Carried.type = "RestoreStatement" -> TRUE
               [] OTHER -> dataPointer' = dataPointer
       /\ ~Dispatching => (dataPointer' = dataPointer \/ (runs' = runs + 1 /\ dataPointer' = 0))]_vars

\* 10 DATA 1,3 / 20 DIM A(1) / 30 READ A(0), B(0), X: the READ assigned A(0),
\* took the second value and failed on the undeclared B
C24_Witness ==
    /\ phase = "returned"
    /\ Len(source) = 3
    /\ source[3].kw = "READ"
    /\ Len(dataValues) = 2
    /\ error = RuntimeError(<<"Undefined array: ">> \o B)
    /\ arrays[A].value.items[0] = NumberValue(Num(1))
    /\ X \notin DOMAIN variables
    /\ dataPointer = 2

-----------------------------------------------------------------------------
(* C25 *)

\* the table positions (from 1) of the statements bearing line number t
Bearers(t) == {i \in 1..Len(source) : WrittenTable(source)[i].num = t}

\* C25 (as claimed): `IF c THEN GOTO T` with c truthy and a statement
\* bearing line number T transfers control like a top-level GOTO: no error
\* is raised and the next statement dispatched is the first one bearing T.
C25_GotoAsBranchReachesTarget ==
    [][(/\ Dispatching
        /\ CurrentWritten.kw = "IF"
        /\ CurrentWritten.thenW.kw = "GOTO"
        /\ ~IsThrow(ConditionValue)
        /\ NonZeroOrNonEmpty(ConditionValue)
        /\ Bearers(CurrentWritten.thenW.target) # {}) =>
           /\ error' = NoNode
           /\ phase' = "increment"
           /\ \A i \in Bearers(CurrentWritten.thenW.target) : programCounter' + 1 <= i - 1
           /\ programCounter' + 2 \in Bearers(CurrentWritten.thenW.target)]_vars

-----------------------------------------------------------------------------
(* C26 *)

\* w is a RESTORE n and no DATA statement of the program has a line number >= n
RestoresPastAllData(w) ==
    /\ w.kw = "RESTORE"
    /\ w.arg # Undefined
    /\ \A i \in 1..Len(source) :
          source[i].kw = "DATA" => (source[i].num = Undefined \/ source[i].num < w.arg)

\* C26 (as claimed): `RESTORE n` when no DATA statement has a line number
\* >= n sets the data pointer to the pool length, and a READ dispatched
\* next fails with the RuntimeError "Out of DATA".
C26_RestorePastAllDataExhausts ==
    [][/\ (Dispatching /\ RestoresPastAllData(CurrentWritten)) =>
              dataPointer' = Len(dataValues)
       /\ (/\ Dispatching
           /\ CurrentWritten.kw = "READ"
           /\ trace # <<>>
           /\ RestoresPastAllData(LastWritten)) =>
              /\ error' = RuntimeError(<<"Out of DATA">>)
              /\ phase' = "returned"]_vars

-----------------------------------------------------------------------------
(* C27 *)

\* the position in the trace of the most recent dispatch of a FOR on
\* variable v in this run, 0 when there is none
LastForOn(v) ==
    LET hits == {k \in 1..Len(trace) :
                    /\ WrittenTable(source)[trace[k] + 1].kw = "FOR"
                    /\ WrittenTable(source)[trace[k] + 1].variable = v}
    IN IF hits = {} THEN 0 ELSE CHOOSE k \in hits : \A j \in hits : j <= k

\* the step a written FOR asks for
WrittenStep(w) ==
    IF w.step = NoNode THEN Num(1) ELSE evaluateExpression(w.step, Context).value

\* what NEXT on v does when it follows the written FOR w at table index at:
\* the loop's current value advances by the step of w and v takes it; within
\* the end of w the run re-enters after w and the loop stays open, beyond
\* it the loop is closed
NextFollows(v, w, at) ==
    LET current == Double(forLoops[LoopIndex(forLoops, v)].current + WrittenStep(w))
        end == evaluateExpression(w.end, Context).value
    IN /\ error' = NoNode
       /\ variables'[v] = NumberValue(current)
       /\ IF (IF WrittenStep(w) > 0 THEN current <= end ELSE current >= end)
          THEN /\ programCounter' = at
               /\ LoopIndex(forLoops', v) # 0
          ELSE /\ programCounter' = programCounter
               /\ LoopIndex(forLoops', v) = 0

\* C27: at most one loop context exists per variable name in every state;
\* the dispatch of FOR V while a loop on V is open replaces that context,
\* and the NEXT V that follows uses the end value, the step and the
\* re-entry index of the most recent FOR V.
C27_OneLoopPerVariable ==
    [][/\ \A i, j \in 1..Len(forLoops') :
             forLoops'[i].variable = forLoops'[j].variable => i = j
       /\ (/\ Dispatching
           /\ CurrentWritten.kw = "FOR"
           /\ LoopIndex(forLoops, CurrentWritten.variable) # 0
           /\ error' = NoNode) =>
              /\ Len(forLoops') = Len(forLoops)
              /\ \A i \in 1..Len(forLoops) :
                    forLoops[i].variable # CurrentWritten.variable =>
                        forLoops'[i] = forLoops[i]
              /\ forLoops'[LoopIndex(forLoops', CurrentWritten.variable)] =
                    [variable |-> CurrentWritten.variable,
                     current |-> evaluateExpression(CurrentWritten.start, Context).value,
                     end |-> evaluateExpression(CurrentWritten.end, Context).value,
                     step |-> WrittenStep(CurrentWritten),
                     startLine |-> programCounter]
       /\ (/\ Dispatching
           /\ CurrentWritten.kw = "NEXT"
           /\ CurrentWritten.variable # <<>>
           /\ LoopIndex(forLoops, CurrentWritten.variable) # 0
           /\ LastForOn(CurrentWritten.variable) # 0) =>
              NextFollows(CurrentWritten.variable,
                          WrittenTable(source)[trace[LastForOn(CurrentWritten.variable)] + 1],
                          trace[LastForOn(CurrentWritten.variable)])]_vars

\* 10 FOR I = 1 TO 4 / 20 FOR I = 1 TO 2 / 30 PRINT I; / 40 NEXT I / 50 NEXT I:
\* the loop ran to 2 from line 30 on, and the second NEXT I found no loop
C27_Witness ==
    /\ phase = "returned"
    /\ Len(source) = 5
    /\ source[1] = At(10, WFor(I, N(1), N(4), NoNode))
    /\ source[2] = At(20, WFor(I, N(1), N(2), NoNode))
    /\ source[5] = At(50, WNext(I))
    /\ trace = <<0, 1, 2, 3, 2, 3, 4>>
    /\ error = RuntimeError(<<"NEXT without matching FOR: ">> \o I)
    /\ forLoops = <<>>

-----------------------------------------------------------------------------
(* C28 *)

\* the rendered texts of the items from the i-th on, each adjacent pair
\* joined as the separator written between the two says
RECURSIVE JoinedAsWritten(_, _, _)
JoinedAsWritten(items, seps, i) ==
    IF i > Len(items) THEN <<>>
    ELSE valueToString(evaluateExpression(items[i], Context))
           \o (IF i < Len(items) /\ seps[i] = Comma THEN <<"\t">> ELSE <<>>)
           \o JoinedAsWritten(items, seps, i + 1)

\* C28 (as claimed): in a PRINT with several expressions each adjacent pair
\* is joined according to the separator written between that pair, a tab
\* for a comma and nothing for a semicolon, independently of the other
\* separators of the statement and of a trailing separator.
C28_EachPairByItsSeparator ==
    [][(/\ Dispatching
        /\ CurrentWritten.kw = "PRINT"
        /\ Len(CurrentWritten.items) >= 2
        /\ error' = NoNode) =>
          /\ Len(output') = Len(output) + 1
          /\ IsPrefix(JoinedAsWritten(CurrentWritten.items, CurrentWritten.seps, 1),
                      Last(output'))
          /\ Len(Last(output')) <=
                Len(JoinedAsWritten(CurrentWritten.items, CurrentWritten.seps, 1)) + 1]_vars

-----------------------------------------------------------------------------
(* C29 *)

\* the integer next to x in the direction of zero
TruncateTowardZero(x) == IF x >= 0 THEN x \div Scale ELSE -((-x) \div Scale)

\* the index tuple the written index expressions address when every index
\* value is truncated toward zero
TruncatedIndex(indices) ==
    [d \in 1..Len(indices) |->
        TruncateTowardZero(evaluateExpression(indices[d], Context).value)]

\* some index value of the tuple is not whole
HasFraction(indices) ==
    \E d \in 1..Len(indices) : evaluateExpression(indices[d], Context).value % Scale # 0

\* C29 (as claimed): array index values are truncated toward zero before
\* use: a read with an index value that is not whole prints the element at
\* the truncated index, and a write with such an index value stores the
\* value in the element at the truncated index (an index value strictly
\* between -1 and 0 addresses element 0, one strictly between k and k+1,
\* k >= 0, addresses element k).
C29_IndexTruncatedTowardZero ==
    [][/\ (/\ Dispatching
           /\ ReadsElement
           /\ CurrentWritten.items[1].name \in DOMAIN arrays
           /\ HasFraction(CurrentWritten.items[1].indices)) =>
              /\ error' = NoNode
              /\ output' = Append(output,
                     valueToString(getArrayElement(
                         arrays[CurrentWritten.items[1].name].value,
                         TruncatedIndex(CurrentWritten.items[1].indices))) \o <<"\n">>)
       /\ (/\ Dispatching
           /\ AssignsElement
           /\ HasFraction(CurrentWritten.target.indices)) =>
              /\ error' = NoNode
              /\ getArrayElement(arrays'[CurrentWritten.target.name].value,
                                 TruncatedIndex(CurrentWritten.target.indices))
                    = evaluateExpression(CurrentWritten.expr, Context)]_vars

-----------------------------------------------------------------------------
(* C30 *)

\* the program is FOR I = 1 TO m / FOR J = 1 TO n / body / NEXT J / NEXT I
IsNestedLoops(src) ==
    /\ Len(src) = 5
    /\ src[1].kw = "FOR"
    /\ src[2].kw = "FOR"
    /\ src[1].end.type = "NumberLiteral"
    /\ src[2].end.type = "NumberLiteral"
    /\ src = NestedLoops(ToInt(src[1].end.value), ToInt(src[2].end.value))

OuterCount(src) == ToInt(src[1].end.value)

InnerCount(src) == ToInt(src[2].end.value)

\* the dispatches of the body, the statement at table index 2
NestedBodyDispatches == Cardinality({k \in 1..Len(trace) : trace[k] = 2})

\* C30: in FOR I = 1 TO m / FOR J = 1 TO n / body / NEXT J / NEXT I with
\* m >= 1 and n >= 1 the body is dispatched exactly m*n times, the k-th
\* time with I = (k-1) div n + 1 and J = (k-1) mod n + 1, so that J starts
\* again at 1 for each value of I; when the run returns no loop context is
\* open.
C30_NestedLoopsRunBodyMTimesN ==
    IsNestedLoops(source) =>
        /\ NestedBodyDispatches <= OuterCount(source) * InnerCount(source)
        /\ Len(output) \in {NestedBodyDispatches, NestedBodyDispatches - 1}
        /\ \A k \in 1..Len(output) :
              output[k] = NumberToString(Num(((k - 1) \div InnerCount(source)) + 1))
                            \o NumberToString(Num(((k - 1) % InnerCount(source)) + 1))
        /\ phase = "returned" =>
              /\ error = NoNode
              /\ NestedBodyDispatches = OuterCount(source) * InnerCount(source)
              /\ Len(output) = NestedBodyDispatches
              /\ Last(trace) = 4
              /\ forLoops = <<>>

\* m = 2, n = 2: the body ran four times, with 11, 12, 21, 22
C30_Witness ==
    /\ phase = "returned"
    /\ source = NestedLoops(2, 2)
    /\ output = <<<<"1", "1">>, <<"1", "2">>, <<"2", "1">>, <<"2", "2">>>>
    /\ trace = <<0, 1, 2, 3, 2, 3, 4, 1, 2, 3, 2, 3, 4>>
    /\ forLoops = <<>>

-----------------------------------------------------------------------------
(* C31 *)

\* the Lexer tokenizes inp from the cursor lx on without a SyntaxError
RECURSIVE Accepted(_, _)
Accepted(inp, lx) ==
    \/ isAtEnd(inp, lx)
    \/ /\ nextToken(inp, lx).thrown = NoNode
       /\ Accepted(inp, nextToken(inp, lx).lx)

\* the number of newline characters among the first p characters of inp
NewlinesBefore(inp, p) == Cardinality({i \in 1..p : inp[i] = "\n"})

\* the offset of the first character of the token the next pass of the loop
\* scans (the end of the input for the EOF token)
TokenStart == skipWhitespace(input, Cursor(position, line, column)).position

\* C31 (as claimed): for every input the lexer accepts, inputs with newline
\* characters inside string literals included, the line tag of each token
\* is 1 plus the number of newline characters that precede the first
\* character of the token in the input.
C31_LineTagCountsNewlines ==
    [][(/\ lexing = "loop"
        /\ Len(tokens') = Len(tokens) + 1
        /\ Accepted(input, Cursor(0, 1, 1))) =>
          Last(tokens').line = 1 + NewlinesBefore(input, TokenStart)]_vars

-----------------------------------------------------------------------------
(* C38 *)

\* the line number a stored line carries
StoredNumber(l) == parseInt(FirstPiece(l))

\* the line just read is a bare line number
BareNumberRead ==
    /\ entered' = entered + 1
    /\ toLowerCase(readLine') \notin Commands
    /\ Matches(readLine')
    /\ trim(MatchedCode(readLine')) = <<>>

\* the stored lines whose line number is not n, in their order
RECURSIVE Without(_, _)
Without(lines, n) ==
    IF lines = <<>> THEN <<>>
    ELSE IF StoredNumber(Head(lines)) = n THEN Without(Tail(lines), n)
    ELSE <<Head(lines)>> \o Without(Tail(lines), n)

\* C38 (as claimed): in interactive mode, entering a bare line number N
\* removes from the program buffer exactly the stored line whose line number
\* is N, if there is one, and leaves every stored line with a different
\* line number unchanged.
C38_BareNumberRemovesThatLine ==
    [][BareNumberRead =>
          program' = Without(program, parseInt(MatchedNumber(readLine')))]_vars

-----------------------------------------------------------------------------
(* C33 *)

\* FOR V = s TO e [STEP k] / PRINT V; / NEXT [V]  with whole s and e and the
\* start already beyond the end: s > e with k > 0, or s < e with k < 0
StartsBeyondEnd(src) ==
    /\ Len(src) = 3
    /\ WrittenTable(src) = src
    /\ src[1].kw = "FOR"
    /\ src[2] = At(src[2].num, WPrint(<<V(src[1].variable)>>, <<Semicolon>>))
    /\ src[3].kw = "NEXT"
    /\ src[3].variable \in {src[1].variable, <<>>}
    /\ IsWhole(src[1].start)
    /\ IsWhole(src[1].end)
    /\ \/ WrittenStep(src[1]) > 0 /\ src[1].start.value > src[1].end.value
       \/ WrittenStep(src[1]) < 0 /\ src[1].start.value < src[1].end.value

\* C33: FOR performs no entry test: when the start value is already beyond
\* the end value (start > end with a positive step, or start < end with a
\* negative step), the statements between FOR and its NEXT are still
\* dispatched exactly once before the loop is closed.
C33_NoEntryTest ==
    (runs = 1 /\ StartsBeyondEnd(source)) =>
        /\ BodyDispatches <= 1
        /\ Cardinality({i \in 1..Len(trace) : trace[i] = 2}) <= 1
        /\ (trace # <<>> /\ BodyDispatches = 0) => trace = <<0>>
        /\ phase = "returned" =>
              /\ error = NoNode
              /\ trace = <<0, 1, 2>>
              /\ output = <<NumberToString(source[1].start.value)>>
              /\ LoopIndex(forLoops, source[1].variable) = 0

\* FOR I = 3 TO 1 and FOR I = 1 TO 3 STEP -1 have run their body once and
\* are closed
C33_Witness ==
    /\ phase = "returned"
    /\ runs = 1
    /\ StartsBeyondEnd(source)
    /\ source[1].start.value = Num(1)
    /\ source[1].end.value = Num(3)
    /\ WrittenStep(source[1]) < 0
    /\ trace = <<0, 1, 2>>
    /\ output = <<<<"1">>>>
    /\ forLoops = <<>>

-----------------------------------------------------------------------------
(* C37 *)

\* the number of values left in the pool
Left == Len(dataValues) - dataPointer

\* the READ about to be dispatched has more targets than the pool has values
\* left, at least one value is left, and every target a value is left for
\* can be assigned
RunsOutPartWay ==
    /\ Dispatching
    /\ Carried.type = "ReadStatement"
    /\ 0 < Left
    /\ Left < Len(Carried.variables)
    /\ FirstUnassignable(Carried.variables) > Left

\* the i-th target of the READ holds, after the step, the value it was read
\* (unless a later target that was read has its name)
KeepsValueRead(targets, i) ==
    IF targets[i].indices = <<>>
    THEN (\A j \in (i + 1)..Left : targets[j].name # targets[i].name) =>
            /\ targets[i].name \in DOMAIN variables'
            /\ variables'[targets[i].name] = DataValue(dataValues[dataPointer + i])
    ELSE arrays'[targets[i].name].value.items[targets[i].indices[1].value \div Scale]
            = DataValue(dataValues[dataPointer + i])

\* the names of the first k targets without and with indices
ScalarsRead(targets, k) == {targets[i].name : i \in {j \in 1..k : targets[j].indices = <<>>}}

ArraysRead(targets, k) == {targets[i].name : i \in {j \in 1..k : targets[j].indices # <<>>}}

\* C37: when a READ with several targets runs out of data part-way, the
\* targets listed before the exhausted one keep the values just read, the
\* data pointer equals the pool length, the remaining targets are
\* unchanged, and the run aborts with the out-of-data error.
C37_ReadRunsOutPartWay ==
    [][RunsOutPartWay =>
          /\ \A i \in 1..Left : KeepsValueRead(Carried.variables, i)
          /\ dataPointer' = Len(dataValues)
          /\ \A v \in (DOMAIN variables \cup DOMAIN variables')
                         \ ScalarsRead(Carried.variables, Left) :
                /\ v \in DOMAIN variables
                /\ v \in DOMAIN variables'
                /\ variables'[v] = variables[v]
          /\ \A a \in (DOMAIN arrays \cup DOMAIN arrays')
                         \ ArraysRead(Carried.variables, Left) :
                /\ a \in DOMAIN arrays
                /\ a \in DOMAIN arrays'
                /\ arrays'[a] = arrays[a]
          /\ error' = RuntimeError(<<"Out of DATA">>)
          /\ running' = running
          /\ phase' = "returned"
          /\ output' = Append(output, <<"Runtime Error: ", "Out of DATA">>)]_vars

\* 10 DATA 1,"B" / 20 LET X = 2 / 30 READ A, B, X: A and B were read, the
\* pool ran out at X, which keeps the 2 assigned before
C37_Witness ==
    /\ phase = "returned"
    /\ error = RuntimeError(<<"Out of DATA">>)
    /\ Len(source) = 4
    /\ source[3] = At(30, WRead(<<V(A), V(B), V(X)>>))
    /\ trace = <<0, 1, 2>>
    /\ dataPointer = 2
    /\ Len(dataValues) = 2
    /\ variables[A] = NumberValue(Num(1))
    /\ variables[B] = StringValue(B)
    /\ variables[X] = NumberValue(Num(2))

-----------------------------------------------------------------------------
(* C34 *)

\* FOR I = 1 TO e [STEP k] / LET I = x / PRINT I; / NEXT [I]
IsAssignedLoop(src) == src \in AssignedLoops

\* what PRINT shows of the value the body assigns
Shown(x) == IF x.type = "NumberLiteral" THEN NumberToString(x.value) ELSE x.value

\* the number of dispatches of the table index at in this run
DispatchesOf(at) == Cardinality({i \in 1..Len(trace) : trace[i] = at})

\* C34: assigning to the loop variable inside a FOR body does not change
\* the number of iterations: NEXT advances the loop context's own current
\* value by the step and overwrites the variable with it, so the variable
\* seen by the next pass is the loop's progression value, not the assigned
\* one.
C34_AssignmentKeepsIterations ==
    (runs = 1 /\ IsAssignedLoop(source)) =>
        /\ DispatchesOf(2) <= Passes(source)
        /\ output = [j \in 1..DispatchesOf(2) |-> Shown(source[2].expr)]
        /\ (phase = "increment" /\ Last(trace) = 3) =>
              variables[I] = NumberValue(source[1].start.value
                                           + DispatchesOf(3) * StepOf(source))
        /\ (phase = "loop" /\ trace # <<>> /\ Last(trace) = 3 /\ programCounter = 1) =>
              variables[I] = NumberValue(source[1].start.value
                                           + DispatchesOf(3) * StepOf(source))
        /\ phase = "returned" =>
              /\ error = NoNode
              /\ DispatchesOf(2) = Passes(source)
              /\ forLoops = <<>>

\* FOR I = 1 TO 3 with LET I = 9 in its body has made its three passes: each
\* printed 9, and NEXT left I at 4
C34_Witness ==
    /\ phase = "returned"
    /\ runs = 1
    /\ source = AssignedLoop(3, NoNode, N(9), I)
    /\ output = <<<<"9">>, <<"9">>, <<"9">>>>
    /\ variables[I] = NumberValue(Num(4))
    /\ DispatchesOf(2) = 3

-----------------------------------------------------------------------------
(* C35 *)

\* the shape of an array element: the extent of every array in it
RECURSIVE Shape(_)
Shape(e) ==
    IF IsArray(e)
    THEN [length |-> e.length, of |-> [k \in DOMAIN e.items |-> Shape(e.items[k])]]
    ELSE [leaf |-> TRUE]

\* positions 0..length-1 and no other; the elements are all number or
\* string values, or all arrays of one shape, rectangular themselves
RECURSIVE Rectangular(_)
Rectangular(e) ==
    /\ IsArray(e)
    /\ DOMAIN e.items = 0..(e.length - 1)
    /\ \/ \A k \in DOMAIN e.items : e.items[k].type \in {"number", "string"}
       \/ \A k \in DOMAIN e.items :
             /\ Rectangular(e.items[k])
             /\ Shape(e.items[k]) = Shape(e.items[0])

\* C35 (as claimed): after any sequence of DIM statements and array-element
\* assignments every array in the context is rectangular, with bound+1
\* positions in each declared dimension (the shape DIM gave it) and number
\* or string leaves; an assignment with fewer or more indices than declared
\* dimensions, or with an out-of-range index, does not change the shape.
C35_ArraysStayRectangular ==
    [][/\ \A a \in DOMAIN arrays' : Rectangular(arrays'[a].value)
       /\ (Dispatching /\ Carried.type # "DimStatement") =>
             \A a \in DOMAIN arrays :
                 /\ a \in DOMAIN arrays'
                 /\ Shape(arrays'[a].value) = Shape(arrays[a].value)]_vars

-----------------------------------------------------------------------------
(* C36 *)

\* the statement about to be dispatched shares its line number with another
SharesLineNumber ==
    /\ CurrentWritten.num # Undefined
    /\ Cardinality(Bearers(CurrentWritten.num)) >= 2

\* C36 (as claimed): when several statements carry the same line number,
\* all of them are kept in the statement table in source order and all are
\* dispatched on fall-through (none overwrites another); a GOTO to that
\* number resumes at the first of them.
C36_SharedLineNumber ==
    [][/\ phase' # "idle" =>
             orderedStatements' =
                 [k \in 1..Len(source') |-> statement(WrittenTable(source')[k])]
       /\ (Dispatching /\ SharesLineNumber /\ CurrentWritten.kw = "PRINT") =>
             (error' = NoNode /\ phase' = "increment" /\ programCounter' = programCounter)
       /\ phase = "increment" => programCounter' = programCounter + 1
       /\ (/\ Dispatching
           /\ CurrentWritten.kw = "GOTO"
           /\ Cardinality(Bearers(CurrentWritten.target)) >= 2) =>
             /\ error' = NoNode
             /\ programCounter' + 2 \in Bearers(CurrentWritten.target)
             /\ \A i \in Bearers(CurrentWritten.target) : programCounter' + 2 <= i]_vars

-----------------------------------------------------------------------------
(* C32 *)

\* the written statement is a GOTO or holds one in a branch
RECURSIVE HasGoto(_)
HasGoto(w) ==
    \/ w.kw = "GOTO"
    \/ /\ w.kw = "IF"
       /\ \/ HasGoto(w.thenW)
          \/ w.elseW # NoNode /\ HasGoto(w.elseW)

\* an integer written as a literal, with or without a minus sign
IsInteger(e) ==
    \/ IsWhole(e)
    \/ e.type = "UnaryExpression" /\ e.operator = "-" /\ IsWhole(e.operand)

LiteralMagnitude(e) == IF e.type = "NumberLiteral" THEN e.value ELSE e.operand.value

\* a FOR with integer bounds and a non-zero integer step
IntegerLoop(w) ==
    /\ IsInteger(w.start)
    /\ IsInteger(w.end)
    /\ w.step = NoNode \/ (IsInteger(w.step) /\ LiteralMagnitude(w.step) # 0)

\* every FOR of the statement is such a FOR
RECURSIVE IntegerLoops(_)
IntegerLoops(w) ==
    CASE w.kw = "FOR" -> IntegerLoop(w)
      [] w.kw = "IF" -> /\ IntegerLoops(w.thenW)
                        /\ w.elseW = NoNode \/ IntegerLoops(w.elseW)
      [] OTHER -> TRUE

\* no GOTO, and integer bounds and a non-zero integer step in every FOR
Qualifies(src) ==
    \A i \in 1..Len(src) : ~HasGoto(src[i]) /\ IntegerLoops(src[i])

StepMagnitude(w) == IF w.step = NoNode THEN Num(1) ELSE LiteralMagnitude(w.step)

\* every value the loop of FOR w can take is a number: one step beyond
\* either bound is still within the integers that are all numbers
RECURSIVE StaysExact(_)
StaysExact(w) ==
    CASE w.kw = "FOR" -> /\ LiteralMagnitude(w.start) + StepMagnitude(w) <= Num(Exact)
                         /\ LiteralMagnitude(w.end) + StepMagnitude(w) <= Num(Exact)
      [] w.kw = "IF" -> /\ StaysExact(w.thenW)
                        /\ w.elseW = NoNode \/ StaysExact(w.elseW)
      [] OTHER -> TRUE

\* the dispatch leaves the run, once the program counter is incremented,
\* in the very state it was dispatched in: interpret being deterministic,
\* the same dispatch then repeats for ever
ReturnsToItself ==
    /\ phase' = "increment"
    /\ error' = NoNode
    /\ programCounter' + 1 = programCounter
    /\ running' = running
    /\ variables' = variables
    /\ arrays' = arrays
    /\ forLoops' = forLoops
    /\ dataPointer' = dataPointer
    /\ output' = output

\* C32 (as claimed): a run on a fresh interpreter of any program that
\* contains no GOTO and whose FOR statements all have integer bounds and a
\* non-zero integer step terminates: after finitely many dispatches the
\* program counter reaches the end of the table, an END is dispatched, or a
\* runtime error ends the run.  A run that terminates never returns to a
\* state it was in.
C32_RunTerminates ==
    /\ (phase = "loop" /\ runs = 1 /\ Qualifies(source)) ~> (phase = "returned")
    /\ [][(Dispatching /\ runs = 1 /\ Qualifies(source)) => ~ReturnsToItself]_vars

\* such a run does terminate when, in every FOR, one step beyond the start
\* and beyond the end is still an integer that is exactly a number: then
\* every NEXT moves the loop's current value
ExactRunTerminates ==
    (/\ phase = "loop"
     /\ runs = 1
     /\ Qualifies(source)
     /\ \A i \in 1..Len(source) : StaysExact(source[i]))
        ~> (phase = "returned")

====
